---- MODULE Spec2Model ----
(***************************************************************************)
(* Model of the image file service of vscode-nanobanana: saveToTemp and    *)
(* the EXIF prompt-metadata embedding it performs on PNG and JPEG bytes.   *)
(*                                                                         *)
(* Buffers are sequences of bytes (0..255).  JavaScript strings are        *)
(* sequences of UTF-16 code units.  Buffer offsets are kept 0-based as in  *)
(* the source; a byte at offset o is element o + 1 of the sequence.        *)
(* Unsigned 32-bit values that take part in bit operations (the CRC        *)
(* register and table entries) are pairs <<high 16 bits, low 16 bits>>.    *)
(***************************************************************************)
EXTENDS Integers, Sequences, FiniteSets, TLC

\* ------------------------------------------------------------------ bounds

\* Longest list of chunks in the generated PNG inputs.
MaxChunks == 3

\* Longest list of segments after SOI in the generated JPEG inputs.
MaxSegments == 2

\* Most bytes cut off the end of a well-formed buffer to make a truncated one.
MaxTruncate == 13

\* Most saveToTemp calls in one behaviour (the output of a call may be fed back).
MaxSaves == 2

\* saveToTemp calls in flight at the same time.
MaxCalls == 2

\* Longest list of models selectPreferredModel is given.
MaxModels == 3

\* ------------------------------------------------------- program constants

\* compact.slice(0, 2000)
MaxPromptLength == 2000

\* const PNG_SIGNATURE = Buffer.from([0x89, 0x50, 0x4e, 0x47, 0x0d, 0x0a, 0x1a, 0x0a])
PNG_SIGNATURE == <<137, 80, 78, 71, 13, 10, 26, 10>>

\* const JPEG_SOI = Buffer.from([0xff, 0xd8])
JPEG_SOI == <<255, 216>>

\* ------------------------------------------------------------ arithmetic

Min(a, b) == IF a <= b THEN a ELSE b

Max(a, b) == IF a >= b THEN a ELSE b

\* Bitwise exclusive or of two naturals, bit by bit.
RECURSIVE BitXorBits(_, _)
BitXorBits(a, b) ==
  IF a = 0 THEN b
  ELSE IF b = 0 THEN a
  ELSE (((a % 2) + (b % 2)) % 2) + 2 * BitXorBits(a \div 2, b \div 2)

\* The exclusive or of every two 4-bit values, as a tuple of tuples.
RECURSIVE NibbleXorRow(_, _, _)
NibbleXorRow(a, lo, hi) ==
  IF lo = hi THEN <<BitXorBits(a, lo)>>
  ELSE NibbleXorRow(a, lo, (lo + hi) \div 2)
         \o NibbleXorRow(a, ((lo + hi) \div 2) + 1, hi)

RECURSIVE NibbleXorRows(_, _)
NibbleXorRows(lo, hi) ==
  IF lo = hi THEN <<NibbleXorRow(lo, 0, 15)>>
  ELSE NibbleXorRows(lo, (lo + hi) \div 2)
         \o NibbleXorRows(((lo + hi) \div 2) + 1, hi)

NibbleXor == NibbleXorRows(0, 15)

\* a ^ b on 8-bit values.
Xor8(a, b) ==
  (16 * NibbleXor[(a \div 16) + 1][(b \div 16) + 1])
    + NibbleXor[(a % 16) + 1][(b % 16) + 1]

\* a ^ b on 16-bit values.
BitXor(a, b) == (256 * Xor8(a \div 256, b \div 256)) + Xor8(a % 256, b % 256)

\* u ^ v on 32-bit values.
Xor32(u, v) == <<BitXor(u[1], v[1]), BitXor(u[2], v[2])>>

\* u >>> n on a 32-bit value, 0 < n < 16.
Shr32(u, n) ==
  <<u[1] \div (2^n), ((u[1] % (2^n)) * (2^(16 - n))) + (u[2] \div (2^n))>>

\* The four big-endian bytes of a 32-bit value held as a pair.
U32PairBytes(u) == <<u[1] \div 256, u[1] % 256, u[2] \div 256, u[2] % 256>>

\* buf.writeUInt32BE(n): the four big-endian bytes of a number below 2^31.
UInt32BE(n) ==
  <<n \div 16777216, (n \div 65536) % 256, (n \div 256) % 256, n % 256>>

\* buf.writeUInt16BE(n): the two big-endian bytes of a number below 2^16.
UInt16BE(n) == <<n \div 256, n % 256>>

\* bytes.readUInt32BE(offset).  Node raises a RangeError when fewer than four
\* bytes remain: that outcome is the value -1 here.  Values of 2^30 and more
\* are reported as 2^30: every buffer of the model is far shorter, so each
\* comparison the source makes with the value has the same outcome.
readUInt32BE(bytes, offset) ==
  IF offset + 4 > Len(bytes) THEN -1
  ELSE IF bytes[offset + 1] >= 64 THEN 1073741824
  ELSE (bytes[offset + 1] * 16777216) + (bytes[offset + 2] * 65536)
         + (bytes[offset + 3] * 256) + bytes[offset + 4]

\* bytes.subarray(start, end): clamps to the buffer, never raises.
subarray(bytes, start, end) ==
  SubSeq(bytes, Min(start, Len(bytes)) + 1, Min(end, Len(bytes)))

\* ------------------------------------------------------------- CRC-32

\* The inner loop of buildCrc32Table: eight reduction steps of one entry.
RECURSIVE Crc32Reduce(_, _)
Crc32Reduce(c, bit) ==
  IF bit = 8 THEN c
  ELSE Crc32Reduce(IF c[2] % 2 = 0
                     THEN Shr32(c, 1)
                     ELSE Xor32(<<60856, 33568>>, Shr32(c, 1)),
                   bit + 1)

buildCrc32Table == [i \in 0..255 |-> Crc32Reduce(<<0, i>>, 0)]

\* const CRC32_TABLE = buildCrc32Table(): the table of the module, shared by
\* every call, built when the module is loaded.
VARIABLE CRC32_TABLE

\* One iteration of calculateCrc32's loop.
Crc32Step(crc, byte) ==
  Xor32(CRC32_TABLE[Xor8(crc[2] % 256, byte)], Shr32(crc, 8))

\* The loop of calculateCrc32 over data[lo..hi], left to right.  The range is
\* halved so that the evaluation depth stays logarithmic; the left half is
\* finished before the right half starts.
RECURSIVE Crc32Range(_, _, _, _)
Crc32Range(crc, data, lo, hi) ==
  IF lo > hi THEN crc
  ELSE IF lo = hi THEN Crc32Step(crc, data[lo])
  ELSE LET mid == (lo + hi) \div 2
           Rest(left) == IF left[1] >= 0 THEN Crc32Range(left, data, mid + 1, hi)
                         ELSE left
       IN Rest(Crc32Range(crc, data, lo, mid))

\* calculateCrc32 returning the register as the loop leaves it, without the
\* closing XOR.
calculateCrc32Unfinished(data) ==
  Crc32Range(<<65535, 65535>>, data, 1, Len(data))

calculateCrc32(data) ==
  Xor32(Crc32Range(<<65535, 65535>>, data, 1, Len(data)), <<65535, 65535>>)

\* ------------------------------------------------------------- strings

\* The code units JavaScript's trim() and the regular expression \s treat
\* as white space.
IsWhiteSpace(c) ==
  \/ c \in {9, 10, 11, 12, 13, 32, 160, 5760, 8232, 8233, 8239, 8287, 12288, 65279}
  \/ (c >= 8192 /\ c <= 8202)

\* String.prototype.trim
trim(s) ==
  IF \A i \in 1..Len(s) : IsWhiteSpace(s[i]) THEN <<>>
  ELSE LET first == CHOOSE i \in 1..Len(s) :
                      /\ ~IsWhiteSpace(s[i])
                      /\ \A j \in 1..(i - 1) : IsWhiteSpace(s[j])
           last == CHOOSE i \in 1..Len(s) :
                      /\ ~IsWhiteSpace(s[i])
                      /\ \A j \in (i + 1)..Len(s) : IsWhiteSpace(s[j])
       IN SubSeq(s, first, last)

\* s.replace(/\s+/g, ' '): every maximal run of white space becomes one space.
replaceWhitespaceRuns(s) ==
  LET Kept(c) == c # -1
  IN SelectSeq([i \in 1..Len(s) |->
                  IF ~IsWhiteSpace(s[i]) THEN s[i]
                  ELSE IF i > 1 /\ IsWhiteSpace(s[i - 1]) THEN -1
                  ELSE 32],
               Kept)

\* s.slice(0, n)
sliceFromStart(s, n) == SubSeq(s, 1, Min(Len(s), n))

\* String.prototype.toLowerCase on the ASCII letters.
toLowerCase(s) ==
  [i \in 1..Len(s) |-> IF s[i] >= 65 /\ s[i] <= 90 THEN s[i] + 32 ELSE s[i]]

\* normalizePrompt without the trim: white space alone collapses to one space.
normalizePromptUntrimmed(prompt) ==
  LET Cut(compact) ==
        IF compact = <<>> THEN <<>> ELSE sliceFromStart(compact, MaxPromptLength)
  IN Cut(replaceWhitespaceRuns(prompt))

\* normalizePrompt cutting one unit short: slice(0, 1999).
normalizePromptCutShort(prompt) ==
  LET Cut(compact) ==
        IF compact = <<>> THEN <<>> ELSE sliceFromStart(compact, MaxPromptLength - 1)
  IN Cut(replaceWhitespaceRuns(trim(prompt)))

\* normalizePrompt with the cut made first, on the raw prompt.
normalizePromptCutFirst(prompt) ==
  replaceWhitespaceRuns(trim(sliceFromStart(prompt, MaxPromptLength)))

\* normalizePrompt without the slice: the compact text whatever its length.
normalizePromptUncut(prompt) ==
  replaceWhitespaceRuns(trim(prompt))

normalizePrompt(prompt) ==
  LET Cut(compact) ==
        IF compact = <<>> THEN <<>> ELSE sliceFromStart(compact, MaxPromptLength)
  IN Cut(replaceWhitespaceRuns(trim(prompt)))

IsHighSurrogate(c) == c >= 55296 /\ c <= 56319

IsLowSurrogate(c) == c >= 56320 /\ c <= 57343

\* The UTF-8 bytes Buffer.from(s, 'utf8') emits for the code unit at index i:
\* a surrogate pair is one four-byte sequence (emitted at its high half), an
\* unpaired surrogate is U+FFFD (EF BF BD).
Utf8Unit(s, i) ==
  LET c == s[i]
  IN IF c < 128 THEN <<c>>
     ELSE IF c < 2048 THEN <<192 + (c \div 64), 128 + (c % 64)>>
     ELSE IF IsHighSurrogate(c) /\ i < Len(s) /\ IsLowSurrogate(s[i + 1])
       THEN LET cp == 65536 + ((c - 55296) * 1024) + (s[i + 1] - 56320)
            IN <<240 + (cp \div 262144), 128 + ((cp \div 4096) % 64),
                 128 + ((cp \div 64) % 64), 128 + (cp % 64)>>
     ELSE IF IsLowSurrogate(c) /\ i > 1 /\ IsHighSurrogate(s[i - 1]) THEN <<>>
     ELSE IF IsHighSurrogate(c) \/ IsLowSurrogate(c) THEN <<239, 191, 189>>
     ELSE <<224 + (c \div 4096), 128 + ((c \div 64) % 64), 128 + (c % 64)>>

RECURSIVE Utf8Range(_, _, _)
Utf8Range(s, lo, hi) ==
  IF lo > hi THEN <<>>
  ELSE IF lo = hi THEN Utf8Unit(s, lo)
  ELSE LET mid == (lo + hi) \div 2
       IN Utf8Range(s, lo, mid) \o Utf8Range(s, mid + 1, hi)

\* Buffer.from(s, 'utf8')
BufferFromUtf8(s) == Utf8Range(s, 1, Len(s))

\* bytes.toString('ascii', start, end): Node clears the high bit of each byte.
toStringAscii(bytes, start, end) ==
  LET part == subarray(bytes, start, end)
  IN [i \in 1..Len(part) |-> part[i] % 128]

\* Buffer.from(s, 'ascii'): the low byte of each code unit.
BufferFromAscii(s) == [i \in 1..Len(s) |-> s[i] % 256]

\* The chunk type tags the source names, and the EXIF identifier.
TypeEXIf == <<101, 88, 73, 102>>

TypeIDAT == <<73, 68, 65, 84>>

TypeIEND == <<73, 69, 78, 68>>

ExifIdentifier == <<69, 120, 105, 102, 0, 0>>

\* --------------------------------------------------------- TIFF / EXIF

\* Buffer.alloc(n): n zero bytes.
BufferAlloc(n) == SubSeq([i \in 1..n |-> 0], 1, n)

\* The buffer with `data` written at `offset` (copy, write, writeUIntXX).
WriteAt(buf, offset, data) ==
  SubSeq(buf, 1, offset) \o data \o SubSeq(buf, offset + Len(data) + 1, Len(buf))

\* buildExifTiff keeping the value in the entry only when it is shorter than
\* 4 bytes.
buildExifTiffInlineBelowFour(prompt) ==
  LET Build(description) ==
        LET valueSize == Len(description) + 1
            ifdEntryCount == 1
            ifdBodySize == 2 + (ifdEntryCount * 12) + 4
            valueOffset == 8 + ifdBodySize
            totalLength == IF valueSize < 4 THEN 8 + ifdBodySize
                           ELSE 8 + ifdBodySize + valueSize
            entryOffset == 10
            e0 == BufferAlloc(totalLength)
            e1 == WriteAt(e0, 0, <<77, 77>>)
            e2 == WriteAt(e1, 2, UInt16BE(42))
            e3 == WriteAt(e2, 4, UInt32BE(8))
            e4 == WriteAt(e3, 8, UInt16BE(ifdEntryCount))
            e5 == WriteAt(e4, entryOffset, UInt16BE(270))
            e6 == WriteAt(e5, entryOffset + 2, UInt16BE(2))
            e7 == WriteAt(e6, entryOffset + 4, UInt32BE(valueSize))
            e8 == IF valueSize < 4
                    THEN WriteAt(WriteAt(e7, entryOffset + 8, description),
                                 entryOffset + 8 + Len(description), <<0>>)
                    ELSE WriteAt(WriteAt(WriteAt(e7, entryOffset + 8,
                                                 UInt32BE(valueOffset)),
                                         valueOffset, description),
                                 valueOffset + Len(description), <<0>>)
        IN WriteAt(e8, 8 + 2 + (ifdEntryCount * 12), UInt32BE(0))
  IN Build(BufferFromUtf8(prompt))

buildExifTiff(prompt) ==
  LET Build(description) ==
        LET valueSize == Len(description) + 1
            ifdEntryCount == 1
            ifdBodySize == 2 + (ifdEntryCount * 12) + 4
            valueOffset == 8 + ifdBodySize
            totalLength == IF valueSize <= 4 THEN 8 + ifdBodySize
                           ELSE 8 + ifdBodySize + valueSize
            entryOffset == 10
            e0 == BufferAlloc(totalLength)
            e1 == WriteAt(e0, 0, <<77, 77>>)
            e2 == WriteAt(e1, 2, UInt16BE(42))
            e3 == WriteAt(e2, 4, UInt32BE(8))
            e4 == WriteAt(e3, 8, UInt16BE(ifdEntryCount))
            e5 == WriteAt(e4, entryOffset, UInt16BE(270))
            e6 == WriteAt(e5, entryOffset + 2, UInt16BE(2))
            e7 == WriteAt(e6, entryOffset + 4, UInt32BE(valueSize))
            e8 == IF valueSize <= 4
                    THEN WriteAt(WriteAt(e7, entryOffset + 8, description),
                                 entryOffset + 8 + Len(description), <<0>>)
                    ELSE WriteAt(WriteAt(WriteAt(e7, entryOffset + 8,
                                                 UInt32BE(valueOffset)),
                                         valueOffset, description),
                                 valueOffset + Len(description), <<0>>)
        IN WriteAt(e8, 8 + 2 + (ifdEntryCount * 12), UInt32BE(0))
  IN Build(BufferFromUtf8(prompt))

\* ------------------------------------------------------------ PNG codec

\* buildPngChunk with the CRC taken over the data alone, the type left out.
buildPngChunkCrcOverData(type, data) ==
  LET Build(typeBuffer) ==
        UInt32BE(Len(data)) \o typeBuffer \o data \o U32PairBytes(calculateCrc32(data))
  IN Build(BufferFromAscii(type))

buildPngChunk(type, data) ==
  LET Build(typeBuffer) ==
        LET lengthBuffer == UInt32BE(Len(data))
            crcInput == typeBuffer \o data
            crcBuffer == U32PairBytes(calculateCrc32(crcInput))
        IN lengthBuffer \o typeBuffer \o data \o crcBuffer
  IN Build(BufferFromAscii(type))

\* The while loop of extractPngChunks from `offset` on, `chunks` being the
\* list built so far.  The result is [threw, chunks]: threw is a RangeError
\* raised by a read past the end of the buffer.
RECURSIVE extractPngChunksFrom(_, _, _)
extractPngChunksFrom(bytes, offset, chunks) ==
  IF ~(offset + 12 <= Len(bytes)) THEN [threw |-> FALSE, chunks |-> chunks]
  ELSE LET length == readUInt32BE(bytes, offset)
           chunkEnd == offset + 12 + length
           type == toStringAscii(bytes, offset + 4, offset + 8)
           data == subarray(bytes, offset + 8, offset + 8 + length)
           pushed == Append(chunks, [type |-> type, data |-> data])
       IN IF length = -1 THEN [threw |-> TRUE, chunks |-> <<>>]
          ELSE IF chunkEnd > Len(bytes) THEN [threw |-> FALSE, chunks |-> <<>>]
          ELSE IF type = TypeIEND THEN [threw |-> FALSE, chunks |-> pushed]
          ELSE extractPngChunksFrom(bytes, chunkEnd, pushed)

\* The CRC stored after each chunk of the list, the first of which lies at
\* `offset`, is the CRC of its type and data.
RECURSIVE StoredCrcsMatch(_, _, _, _)
StoredCrcsMatch(bytes, chunks, i, offset) ==
  IF i > Len(chunks) THEN TRUE
  ELSE /\ subarray(bytes, offset + 8 + Len(chunks[i].data),
                   offset + 12 + Len(chunks[i].data))
            = U32PairBytes(calculateCrc32(subarray(bytes, offset + 4,
                                                   offset + 8 + Len(chunks[i].data))))
       /\ StoredCrcsMatch(bytes, chunks, i + 1, offset + 12 + Len(chunks[i].data))

\* extractPngChunks checking the stored CRC of every chunk it reads, and
\* giving up on the image when one is wrong.
extractPngChunksCheckingCrc(bytes) ==
  LET Checked(read) ==
        IF read.threw \/ StoredCrcsMatch(bytes, read.chunks, 1, Len(PNG_SIGNATURE))
          THEN read
        ELSE [threw |-> FALSE, chunks |-> <<>>]
  IN Checked(extractPngChunksFrom(bytes, Len(PNG_SIGNATURE), <<>>))

extractPngChunks(bytes) == extractPngChunksFrom(bytes, Len(PNG_SIGNATURE), <<>>)

\* chunks.filter((chunk) => chunk.type !== 'eXIf')
\* A filter that keeps every chunk, the eXIf chunks too.
KeepsEveryChunk(chunk) == chunk.type = chunk.type

IsNotExifChunk(chunk) == chunk.type # TypeEXIf

\* list.findIndex((chunk) => chunk.type === 'IDAT'), 0-based, -1 when absent.
findFirstIdat(list) ==
  IF \A i \in 1..Len(list) : list[i].type # TypeIDAT THEN -1
  ELSE (CHOOSE i \in 1..Len(list) :
          /\ list[i].type = TypeIDAT
          /\ \A j \in 1..(i - 1) : list[j].type # TypeIDAT) - 1

\* list.splice(index, 1, item): the item takes the place of an element.
spliceOverwrite(list, index, item) ==
  LET at == Min(index, Len(list))
  IN SubSeq(list, 1, at) \o <<item>> \o SubSeq(list, at + 2, Len(list))

\* list.splice(index, 0, item): index is clamped to the length of the list.
spliceInsert(list, index, item) ==
  LET at == Min(index, Len(list))
  IN SubSeq(list, 1, at) \o <<item>> \o SubSeq(list, at + 1, Len(list))

\* Buffer.concat of buildPngChunk over list[lo..hi].
RECURSIVE concatPngChunks(_, _, _)
concatPngChunks(list, lo, hi) ==
  IF lo > hi THEN <<>>
  ELSE buildPngChunk(list[lo].type, list[lo].data) \o concatPngChunks(list, lo + 1, hi)

\* injectPngExif comparing only the first four bytes with the signature.
injectPngExifHalfSignature(bytes, prompt) ==
  LET Rebuild(withoutExif) ==
        LET exifData == buildExifTiff(prompt)
            firstIdat == findFirstIdat(withoutExif)
            insertIndex == IF firstIdat = -1 THEN Len(withoutExif)
                           ELSE Max(1, firstIdat)
            Serialize(spliced) ==
              PNG_SIGNATURE \o concatPngChunks(spliced, 1, Len(spliced))
        IN Serialize(spliceInsert(withoutExif, insertIndex,
                                  [type |-> TypeEXIf, data |-> exifData]))
      Inject(extracted) ==
        IF extracted.threw THEN [threw |-> TRUE, bytes |-> bytes, fresh |-> FALSE]
        ELSE IF Len(extracted.chunks) = 0
          THEN [threw |-> FALSE, bytes |-> bytes, fresh |-> FALSE]
        ELSE [threw |-> FALSE,
              bytes |-> Rebuild(SelectSeq(extracted.chunks, IsNotExifChunk)),
              fresh |-> TRUE]
  IN IF Len(bytes) < Len(PNG_SIGNATURE)
          \/ subarray(bytes, 0, 4) # SubSeq(PNG_SIGNATURE, 1, 4)
       THEN [threw |-> FALSE, bytes |-> bytes, fresh |-> FALSE]
     ELSE Inject(extractPngChunks(bytes))

\* The result is [threw, bytes, fresh]: an exception left the function; the
\* bytes of the Buffer returned; the Buffer returned is one that Buffer.concat
\* allocated, not the Buffer object passed in.
injectPngExif(bytes, prompt) ==
  LET Rebuild(withoutExif) ==
        LET exifData == buildExifTiff(prompt)
            firstIdat == findFirstIdat(withoutExif)
            insertIndex == IF firstIdat = -1 THEN Len(withoutExif)
                           ELSE Max(1, firstIdat)
            Serialize(spliced) ==
              PNG_SIGNATURE \o concatPngChunks(spliced, 1, Len(spliced))
        IN Serialize(spliceInsert(withoutExif, insertIndex,
                                  [type |-> TypeEXIf, data |-> exifData]))
      Inject(extracted) ==
        IF extracted.threw THEN [threw |-> TRUE, bytes |-> bytes, fresh |-> FALSE]
        ELSE IF Len(extracted.chunks) = 0
          THEN [threw |-> FALSE, bytes |-> bytes, fresh |-> FALSE]
        ELSE [threw |-> FALSE,
              bytes |-> Rebuild(SelectSeq(extracted.chunks, IsNotExifChunk)),
              fresh |-> TRUE]
  IN IF Len(bytes) < Len(PNG_SIGNATURE) \/ subarray(bytes, 0, 8) # PNG_SIGNATURE
       THEN [threw |-> FALSE, bytes |-> bytes, fresh |-> FALSE]
     ELSE Inject(extractPngChunks(bytes))

\* --------------------------------------------------------- JPEG injector

\* injectJpegExif writing the length of the payload, without the two bytes of
\* the length field.
injectJpegExifLengthOfPayload(bytes, prompt) ==
  LET Inject(exifPayload) ==
        LET exifSegmentLength == Len(exifPayload) + 2
            app1Header == UInt16BE(65505) \o UInt16BE(Len(exifPayload))
        IN IF exifSegmentLength > 65535
             THEN [threw |-> FALSE, bytes |-> bytes, fresh |-> FALSE]
           ELSE [threw |-> FALSE,
                 bytes |-> subarray(bytes, 0, 2) \o app1Header \o exifPayload
                             \o subarray(bytes, 2, Len(bytes)),
                 fresh |-> TRUE]
  IN IF Len(bytes) < 4 \/ subarray(bytes, 0, 2) # JPEG_SOI
       THEN [threw |-> FALSE, bytes |-> bytes, fresh |-> FALSE]
     ELSE Inject(ExifIdentifier \o buildExifTiff(prompt))

\* injectJpegExif without the test of the length against 0xffff: the 16-bit
\* field keeps the low 16 bits.
injectJpegExifUnchecked(bytes, prompt) ==
  LET Inject(exifPayload) ==
        LET exifSegmentLength == Len(exifPayload) + 2
            app1Header == UInt16BE(65505) \o UInt16BE(exifSegmentLength % 65536)
        IN IF FALSE
             THEN [threw |-> FALSE, bytes |-> bytes, fresh |-> FALSE]
           ELSE [threw |-> FALSE,
                 bytes |-> subarray(bytes, 0, 2) \o app1Header \o exifPayload
                             \o subarray(bytes, 2, Len(bytes)),
                 fresh |-> TRUE]
  IN IF Len(bytes) < 4 \/ subarray(bytes, 0, 2) # JPEG_SOI
       THEN [threw |-> FALSE, bytes |-> bytes, fresh |-> FALSE]
     ELSE Inject(ExifIdentifier \o buildExifTiff(prompt))

\* injectJpegExif writing the new segment over the two bytes that follow SOI
\* in the input.
injectJpegExifOverFirstBytes(bytes, prompt) ==
  LET Inject(exifPayload) ==
        LET exifSegmentLength == Len(exifPayload) + 2
            app1Header == UInt16BE(65505) \o UInt16BE(exifSegmentLength)
        IN IF exifSegmentLength > 65535
             THEN [threw |-> FALSE, bytes |-> bytes, fresh |-> FALSE]
           ELSE [threw |-> FALSE,
                 bytes |-> subarray(bytes, 0, 2) \o app1Header \o exifPayload
                             \o subarray(bytes, 4, Len(bytes)),
                 fresh |-> TRUE]
  IN IF Len(bytes) < 4 \/ subarray(bytes, 0, 2) # JPEG_SOI
       THEN [threw |-> FALSE, bytes |-> bytes, fresh |-> FALSE]
     ELSE Inject(ExifIdentifier \o buildExifTiff(prompt))

\* The result is [threw, bytes, fresh], as for injectPngExif.
injectJpegExif(bytes, prompt) ==
  LET Inject(exifPayload) ==
        LET exifSegmentLength == Len(exifPayload) + 2
            app1Header == UInt16BE(65505) \o UInt16BE(exifSegmentLength)
        IN IF exifSegmentLength > 65535
             THEN [threw |-> FALSE, bytes |-> bytes, fresh |-> FALSE]
           ELSE [threw |-> FALSE,
                 bytes |-> subarray(bytes, 0, 2) \o app1Header \o exifPayload
                             \o subarray(bytes, 2, Len(bytes)),
                 fresh |-> TRUE]
  IN IF Len(bytes) < 4 \/ subarray(bytes, 0, 2) # JPEG_SOI
       THEN [threw |-> FALSE, bytes |-> bytes, fresh |-> FALSE]
     ELSE Inject(ExifIdentifier \o buildExifTiff(prompt))

\* ---------------------------------------------------------- orchestrator

MimePng == <<105, 109, 97, 103, 101, 47, 112, 110, 103>>

MimeJpeg == <<105, 109, 97, 103, 101, 47, 106, 112, 101, 103>>

MimeJpg == <<105, 109, 97, 103, 101, 47, 106, 112, 103>>

\* The result is [bytes, called, encoded, raised]: the returned buffer, the
\* codec the call was dispatched to ("none", "png" or "jpeg"), the text
\* handed to that codec, and whether an exception left the function.
\* attachPromptMetadata comparing the trimmed MIME type as it is written,
\* without lower-casing it.
attachPromptMetadataCaseSensitive(bytes, mimeType, prompt) ==
  LET Returned(result, codec, normalizedPrompt) ==
        [bytes |-> IF result.threw THEN bytes ELSE result.bytes,
         fresh |-> ~result.threw /\ result.fresh,
         called |-> codec, encoded |-> normalizedPrompt, raised |-> FALSE]
      Unchanged ==
        [bytes |-> bytes, fresh |-> FALSE, called |-> "none", encoded |-> <<>>,
         raised |-> FALSE]
      Dispatch(normalizedPrompt, normalizedMimeType) ==
        IF normalizedPrompt = <<>> THEN Unchanged
        ELSE IF normalizedMimeType = MimePng
          THEN Returned(injectPngExif(bytes, normalizedPrompt), "png",
                        normalizedPrompt)
        ELSE IF normalizedMimeType = MimeJpeg \/ normalizedMimeType = MimeJpg
          THEN Returned(injectJpegExif(bytes, normalizedPrompt), "jpeg",
                        normalizedPrompt)
        ELSE Unchanged
  IN Dispatch(normalizePrompt(prompt), trim(mimeType))

attachPromptMetadata(bytes, mimeType, prompt) ==
  LET Returned(result, codec, normalizedPrompt) ==
        [bytes |-> IF result.threw THEN bytes ELSE result.bytes,
         fresh |-> ~result.threw /\ result.fresh,
         called |-> codec, encoded |-> normalizedPrompt, raised |-> FALSE]
      Unchanged ==
        [bytes |-> bytes, fresh |-> FALSE, called |-> "none", encoded |-> <<>>,
         raised |-> FALSE]
      Dispatch(normalizedPrompt, normalizedMimeType) ==
        IF normalizedPrompt = <<>> THEN Unchanged
        ELSE IF normalizedMimeType = MimePng
          THEN Returned(injectPngExif(bytes, normalizedPrompt), "png",
                        normalizedPrompt)
        ELSE IF normalizedMimeType = MimeJpeg \/ normalizedMimeType = MimeJpg
          THEN Returned(injectJpegExif(bytes, normalizedPrompt), "jpeg",
                        normalizedPrompt)
        ELSE Unchanged
  IN Dispatch(normalizePrompt(prompt), toLowerCase(trim(mimeType)))

\* ------------------------------------------------------- ImageFileService

MimeWebp == <<105, 109, 97, 103, 101, 47, 119, 101, 98, 112>>

ExtPng == <<112, 110, 103>>

ExtJpg == <<106, 112, 103>>

ExtWebp == <<119, 101, 98, 112>>

\* MIME_EXTENSION_MAP[key], <<>> standing for undefined.
MIME_EXTENSION_MAP(key) ==
  IF key = MimePng THEN ExtPng
  ELSE IF key = MimeJpeg THEN ExtJpg
  ELSE IF key = MimeWebp THEN ExtWebp
  ELSE <<>>

resolveExtension(mimeType, preferredFormat) ==
  LET fromMime == MIME_EXTENSION_MAP(toLowerCase(mimeType))
      normalizedPreferred == toLowerCase(trim(preferredFormat))
  IN IF fromMime # <<>> THEN fromMime
     ELSE IF normalizedPreferred # <<>> THEN normalizedPreferred
     ELSE ExtPng

\* ------------------------------------------------------------ input sets

\* The chunks the generated PNG inputs are made of: IHDR, IDAT, eXIf, tEXt,
\* IEND, each with a short payload.
GenChunk(k) ==
  IF k = 1 THEN [type |-> <<73, 72, 68, 82>>, data |-> <<0, 1>>]
  ELSE IF k = 2 THEN [type |-> TypeIDAT, data |-> <<120>>]
  ELSE IF k = 3 THEN [type |-> TypeEXIf, data |-> <<77, 77, 0, 42>>]
  ELSE IF k = 4 THEN [type |-> <<116, 69, 88, 116>>, data |-> <<65>>]
  ELSE [type |-> TypeIEND, data |-> <<>>]

\* The reflected CRC-32 of PNG computed bit by bit, without a table:
\* polynomial 0xEDB88320, register 0xFFFFFFFF at the start, complemented at
\* the end.
RECURSIVE Crc32BitSteps(_, _)
Crc32BitSteps(r, n) ==
  IF n = 0 THEN r
  ELSE Crc32BitSteps(IF r[2] % 2 = 1 THEN Xor32(Shr32(r, 1), <<60856, 33568>>)
                     ELSE Shr32(r, 1),
                     n - 1)

RECURSIVE Crc32BitwiseRange(_, _, _, _)
Crc32BitwiseRange(r, data, lo, hi) ==
  IF lo > hi THEN r
  ELSE IF lo = hi THEN Crc32BitSteps(Xor32(r, <<0, data[lo]>>), 8)
  ELSE LET mid == (lo + hi) \div 2
           Rest(left) == IF left[1] >= 0
                           THEN Crc32BitwiseRange(left, data, mid + 1, hi)
                         ELSE left
       IN Rest(Crc32BitwiseRange(r, data, lo, mid))

Crc32Bitwise(data) ==
  Xor32(Crc32BitwiseRange(<<65535, 65535>>, data, 1, Len(data)), <<65535, 65535>>)

\* A well-formed chunk as the encoder of an input image writes it.
EncodedChunk(type, data) ==
  <<0, 0, Len(data) \div 256, Len(data) % 256>> \o type \o data
    \o U32PairBytes(Crc32Bitwise(type \o data))

\* The chunks of the given kinds, one after the other.
RECURSIVE PngBody(_, _)
PngBody(kinds, i) ==
  IF i > Len(kinds) THEN <<>>
  ELSE EncodedChunk(GenChunk(kinds[i]).type, GenChunk(kinds[i]).data)
         \o PngBody(kinds, i + 1)

PngOf(kinds) == PNG_SIGNATURE \o PngBody(kinds, 1)

SeqsUpTo(S, n) == UNION {[1..m -> S] : m \in 0..n}

\* IHDR, then up to MaxChunks chunks of IDAT, eXIf and tEXt, then IEND.
FramedKindLists == {<<1>> \o mid \o <<5>> : mid \in SeqsUpTo({2, 3, 4}, MaxChunks)}

\* Any order of any chunks, up to MaxChunks - 1 of them.
FreeKindLists == SeqsUpTo(1..5, MaxChunks - 1)

\* The 1x1 PNG of tests/imageFileService.test.ts.
ONE_BY_ONE_PNG ==
  <<137, 80, 78, 71, 13, 10, 26, 10, 0, 0, 0, 13, 73, 72, 68, 82, 0, 0, 0, 1,
    0, 0, 0, 1, 8, 4, 0, 0, 0, 181, 28, 12, 2, 0, 0, 0, 11, 73, 68, 65, 84,
    120, 218, 99, 252, 255, 15, 0, 2, 235, 1, 245, 143, 101, 246, 117, 0, 0,
    0, 0, 73, 69, 78, 68, 174, 66, 96, 130>>

DropLast(b, k) == SubSeq(b, 1, Len(b) - k)

\* A chunk header declaring 100 bytes of IDAT data, followed by n bytes.
OverlongTail(n) == <<0, 0, 0, 100>> \o TypeIDAT \o [i \in 1..n |-> 7]

\* Buffers that start with the PNG signature and are not well-formed: cut
\* short, with a chunk that declares more data than the buffer holds, with a
\* wrong stored CRC, with bytes after IEND, with a type byte above 127.
BrokenPngBuffers ==
  {DropLast(ONE_BY_ONE_PNG, k) : k \in 1..MaxTruncate}
    \cup {DropLast(PngOf(<<1, 3, 2, 5>>), k) : k \in 1..MaxTruncate}
    \cup {PngOf(<<1>>) \o OverlongTail(n) : n \in 0..5}
    \cup {PngOf(<<1, 2>>) \o OverlongTail(n) \o PngBody(<<5>>, 1) : n \in {0, 4}}
    \cup {PNG_SIGNATURE \o <<255, 255, 255, 255>> \o TypeIDAT \o <<1, 2, 3, 4>>,
          PNG_SIGNATURE,
          PNG_SIGNATURE \o <<0, 0, 0>>,
          DropLast(PngOf(<<1, 2, 5>>), 1) \o <<0>>,
          PngOf(<<1, 2, 5>>) \o <<9, 9, 9>>,
          PngOf(<<1, 2, 5>>) \o OverlongTail(4),
          PngOf(<<1, 2, 5, 3>>),
          PngOf(<<1, 5, 2, 5>>),
          PngOf(<<1>>) \o EncodedChunk(<<229, 88, 73, 102>>, <<5>>) \o PngBody(<<2, 5>>, 1)}

PngBuffers ==
  {PngOf(kinds) : kinds \in FramedKindLists \cup FreeKindLists}
    \cup {ONE_BY_ONE_PNG} \cup BrokenPngBuffers

\* The segments the generated JPEG inputs are made of: APP0, DQT, an APP1
\* Exif segment written by some earlier tool, EOI.
GenSegment(k) ==
  IF k = 1 THEN <<255, 224, 0, 4, 74, 70>>
  ELSE IF k = 2 THEN <<255, 219, 0, 3, 16>>
  ELSE IF k = 3 THEN <<255, 225, 0, 12>> \o ExifIdentifier \o <<77, 77, 0, 42>>
  ELSE <<255, 217>>

RECURSIVE JpegBody(_, _)
JpegBody(kinds, i) ==
  IF i > Len(kinds) THEN <<>>
  ELSE GenSegment(kinds[i]) \o JpegBody(kinds, i + 1)

JpegOf(kinds) == JPEG_SOI \o JpegBody(kinds, 1)

\* Buffers that are not a well-formed JPEG: too short, a segment declaring
\* more bytes than the buffer holds, no SOI.
BrokenJpegBuffers ==
  {<<>>, <<255>>, <<255, 216, 255>>,
   <<255, 216, 255, 224, 0, 16, 74>>,
   <<255, 216, 255, 219, 255, 255, 1, 2, 255, 217>>,
   <<255, 217, 255, 224, 0, 4, 74, 70>>,
   <<71, 73, 70, 56, 57, 97, 1, 0>>}

JpegBuffers ==
  {JpegOf(kinds) \o suffix : kinds \in SeqsUpTo(1..3, MaxSegments),
                             suffix \in {<<>>, GenSegment(4)}}
    \cup BrokenJpegBuffers

\* A string of n units: `fill` everywhere, then `tail` as its last units.
LongString(n, fill, tail) ==
  [i \in 1..n |-> IF i <= n - Len(tail) THEN fill ELSE tail[i - (n - Len(tail))]]

\* "", white space only, "abc", "sunset city cover", "  a   b\n\tc  ",
\* an unpaired surrogate, U+1F600 followed by U+00E9, "warm product showcase".
ShortPrompts ==
  {<<>>,
   <<32, 10, 9, 160>>,
   <<97, 98, 99>>,
   <<115, 117, 110, 115, 101, 116, 32, 99, 105, 116, 121, 32, 99, 111, 118, 101, 114>>,
   <<32, 32, 97, 32, 32, 32, 98, 10, 9, 99, 32, 32>>,
   <<120, 55357>>,
   <<55357, 56832, 233>>,
   <<119, 97, 114, 109, 32, 112, 114, 111, 100, 117, 99, 116, 32, 115, 104, 111,
     119, 99, 97, 115, 101>>}

\* Prompts longer than MaxPromptLength: plain; with a space as unit number
\* MaxPromptLength; with a surrogate pair across the cut; led by white space;
\* of U+20AC, three bytes each in UTF-8.
LongPrompts ==
  {LongString(MaxPromptLength + 1, 97, <<>>),
   LongString(MaxPromptLength + 2, 97, <<32, 98, 99>>),
   LongString(MaxPromptLength + 1, 97, <<55357, 56832>>),
   LongString(MaxPromptLength + 3, 32, <<97, 32, 32, 98>>),
   LongString(MaxPromptLength + 1, 8364, <<>>)}

\* The prompts of a later call on an image saved before.
LaterPrompts ==
  {<<97, 98, 99>>,
   <<32, 110, 101, 119, 9, 9, 116, 97, 103, 32>>}

PngMimeTypes == {MimePng, <<32, 73, 77, 65, 71, 69, 47, 80, 78, 71, 10>>}

JpegMimeTypes ==
  {MimeJpeg, MimeJpg, <<73, 109, 97, 103, 101, 47, 74, 112, 101, 103, 32>>}

OtherMimeTypes ==
  {MimeWebp, <<>>, <<105, 109, 97, 103, 101, 47, 103, 105, 102>>,
   <<105, 109, 97, 103, 101, 47, 112, 110, 103, 59>>}

Payloads(buffers, mimeTypes, prompts) ==
  [bytes : buffers, mimeType : mimeTypes, prompt : prompts]

\* The payloads saveToTemp is first called with.
FirstPayloads ==
  Payloads(PngBuffers, PngMimeTypes, ShortPrompts)
    \cup Payloads(JpegBuffers, JpegMimeTypes, ShortPrompts)
    \cup Payloads(PngBuffers \cup JpegBuffers, {MimeWebp, <<>>},
                  {<<97, 98, 99>>, <<>>})
    \cup Payloads({ONE_BY_ONE_PNG, PngOf(<<1, 5>>), JpegOf(<<1, 3>>), <<255, 216, 255>>},
                  PngMimeTypes \cup JpegMimeTypes \cup OtherMimeTypes,
                  ShortPrompts \cup LongPrompts)

PreferredFormats == {ExtPng, <<>>, <<32, 74, 80, 71>>}

\* ---------------------------------------------------------------- state

VARIABLES
  payload,            \* the GeneratedImagePayload of the current call
  preferredFormat,    \* the preferredFormat argument of the current call
  pc,                 \* where the current saveToTemp call stands
  bytesWithMetadata,  \* the local of saveToTemp
  called,             \* the codec attachPromptMetadata dispatched to
  encoded,            \* the text attachPromptMetadata handed to the codec
  raised,             \* an exception left attachPromptMetadata
  extension,          \* the local of saveToTemp
  files,              \* the files written so far, oldest first
  saves,              \* saveToTemp calls started
  fresh,              \* attachPromptMetadata returned a newly allocated Buffer,
                      \* not the Buffer object of the payload
  call,               \* a call of one function of the file on its own
  callResult          \* what that call returned

vars ==
  <<payload, preferredFormat, pc, bytesWithMetadata, called, encoded, raised,
    extension, files, saves, fresh, CRC32_TABLE, call, callResult>>

\* The variables of a call of one function on its own.
directVars == <<call, callResult>>

\* No function is called on its own.
NoCall == [fn |-> "none", bytes |-> <<>>, prompt |-> <<>>, state |-> "returned"]

Init ==
  /\ payload \in FirstPayloads
  /\ preferredFormat = IF payload.mimeType \in OtherMimeTypes
                         THEN <<32, 74, 80, 71>> ELSE ExtPng
  /\ pc = "called"
  /\ bytesWithMetadata = <<>>
  /\ called = "none"
  /\ encoded = <<>>
  /\ raised = FALSE
  /\ extension = <<>>
  /\ files = <<>>
  /\ saves = 1
  /\ fresh = FALSE
  /\ CRC32_TABLE = buildCrc32Table
  /\ call = NoCall
  /\ callResult = <<>>

\* await mkdir(outputDir, { recursive: true }) resolves.
Mkdir ==
  /\ pc = "called"
  /\ pc' = "mkdir"
  /\ UNCHANGED <<payload, preferredFormat, bytesWithMetadata, called, encoded,
                 raised, extension, files, saves, fresh, CRC32_TABLE, directVars>>

\* await mkdir(...) rejects: saveToTemp rejects, nothing is written.
MkdirFails ==
  /\ pc = "called"
  /\ pc' = "rejected"
  /\ UNCHANGED <<payload, preferredFormat, bytesWithMetadata, called, encoded,
                 raised, extension, files, saves, fresh, CRC32_TABLE, directVars>>

\* attachPromptMetadata writing the tagged image over the Buffer it was given
\* and returning that Buffer.
AttachMetadataInPlace ==
  /\ pc = "mkdir"
  /\ \E result \in {attachPromptMetadata(payload.bytes, payload.mimeType,
                                         payload.prompt)} :
        /\ payload' = [payload EXCEPT !.bytes = result.bytes]
        /\ bytesWithMetadata' = result.bytes
        /\ called' = result.called
        /\ encoded' = result.encoded
        /\ raised' = result.raised
        /\ fresh' = FALSE
        /\ pc' = IF result.raised THEN "rejected" ELSE "writing"
  /\ extension' = resolveExtension(payload.mimeType, preferredFormat)
  /\ UNCHANGED <<preferredFormat, files, saves, CRC32_TABLE, directVars>>

\* From the resolution of mkdir to the call of writeFile: resolveExtension,
\* the file name, attachPromptMetadata.
AttachMetadata ==
  /\ pc = "mkdir"
  /\ \E result \in {attachPromptMetadata(payload.bytes, payload.mimeType,
                                         payload.prompt)} :
        /\ bytesWithMetadata' = result.bytes
        /\ called' = result.called
        /\ encoded' = result.encoded
        /\ raised' = result.raised
        /\ fresh' = result.fresh
        /\ pc' = IF result.raised THEN "rejected" ELSE "writing"
  /\ extension' = resolveExtension(payload.mimeType, preferredFormat)
  /\ UNCHANGED <<payload, preferredFormat, files, saves, CRC32_TABLE, directVars>>

\* A write of payload.bytes, the image as it came, in place of the bytes
\* attachPromptMetadata returned.
WriteFileOfPayloadBytes ==
  /\ pc = "writing"
  /\ files' = Append(files, [extension |-> extension, bytes |-> payload.bytes])
  /\ pc' = "returned"
  /\ UNCHANGED <<payload, preferredFormat, bytesWithMetadata, called, encoded,
                 raised, extension, saves, fresh, CRC32_TABLE, directVars>>

\* await writeFile(filePath, bytesWithMetadata) resolves; the path is returned.
\* The file name holds Date.now() and a random UUID: each call writes a file
\* of its own, which the position in `files` stands for.
WriteFile ==
  /\ pc = "writing"
  /\ files' = Append(files, [extension |-> extension, bytes |-> bytesWithMetadata])
  /\ pc' = "returned"
  /\ UNCHANGED <<payload, preferredFormat, bytesWithMetadata, called, encoded,
                 raised, extension, saves, fresh, CRC32_TABLE, directVars>>

\* await writeFile(...) rejects.
WriteFileFails ==
  /\ pc = "writing"
  /\ pc' = "rejected"
  /\ UNCHANGED <<payload, preferredFormat, bytesWithMetadata, called, encoded,
                 raised, extension, files, saves, fresh, CRC32_TABLE, directVars>>

\* The refinement loop calls saveToTemp again with the next payload of the
\* image service: here an image that already carries the metadata of the
\* file written before, under the same MIME type and with a new prompt.
SaveAgain ==
  /\ pc = "returned"
  /\ saves < MaxSaves
  /\ \E prompt \in LaterPrompts :
       payload' = [bytes |-> files[Len(files)].bytes,
                   mimeType |-> payload.mimeType,
                   prompt |-> prompt]
  /\ pc' = "called"
  /\ bytesWithMetadata' = <<>>
  /\ called' = "none"
  /\ encoded' = <<>>
  /\ extension' = <<>>
  /\ saves' = saves + 1
  /\ fresh' = FALSE
  /\ UNCHANGED <<preferredFormat, raised, files, CRC32_TABLE, directVars>>

Next ==
  \/ Mkdir
  \/ MkdirFails
  \/ AttachMetadata
  \/ WriteFile
  \/ WriteFileFails
  \/ SaveAgain

Spec == Init /\ [][Next]_vars

\* ------------------------------------------- the functions on their own

\* The codec functions of the file called one at a time with arguments of
\* their own, which need not be ones attachPromptMetadata passes: injectPngExif,
\* injectJpegExif, buildExifTiff, calculateCrc32.

\* 0xffff, the largest APP1 length injectJpegExif writes.
MaxSegmentLength == 65535

\* Prompts of 0 to 5 UTF-8 bytes and longer ones: "", "a", "ab", "abc",
\* "abcd", U+00E9, U+00E9 "a", U+20AC, "x" and an unpaired surrogate,
\* U+1F600, "sunset city cover".
TiffPrompts ==
  {<<>>, <<97>>, <<97, 98>>, <<97, 98, 99>>, <<97, 98, 99, 100>>, <<233>>,
   <<233, 97>>, <<8364>>, <<120, 55357>>, <<55357, 56832>>,
   <<115, 117, 110, 115, 101, 116, 32, 99, 105, 116, 121, 32, 99, 111, 118, 101, 114>>}

\* Prompts around the largest one an APP1 segment holds: 6 + 26 + n + 1 + 2
\* is MaxSegmentLength for n UTF-8 bytes; one byte more; and fewer units of
\* three bytes each that make two bytes more.
OversizePrompts ==
  {LongString(MaxSegmentLength - 35, 97, <<>>),
   LongString(MaxSegmentLength - 34, 97, <<>>),
   LongString(((MaxSegmentLength - 35) \div 3) + 1, 8364, <<>>)}

\* The byte sequences calculateCrc32 is called with: every prefix of the
\* 1x1 PNG of the tests, short sequences of 0, 1 and 255, "123456789", the
\* type and data of the IHDR chunk of that PNG.
CrcInputs ==
  {SubSeq(ONE_BY_ONE_PNG, 1, n) : n \in 0..Len(ONE_BY_ONE_PNG)}
    \cup SeqsUpTo({0, 1, 255}, 3)
    \cup {<<49, 50, 51, 52, 53, 54, 55, 56, 57>>, SubSeq(ONE_BY_ONE_PNG, 13, 29)}

\* Buffers shorter than a signature, with a signature that is wrong in one
\* byte, and with the signature of the other format.
UnsignedBuffers ==
  {SubSeq(ONE_BY_ONE_PNG, 1, n) : n \in 0..7}
    \cup {[ONE_BY_ONE_PNG EXCEPT ![i] = 0] : i \in 1..8}
    \cup {SubSeq(JpegOf(<<1>>) \o GenSegment(4), 1, n) : n \in 0..3}
    \cup {[JpegOf(<<1>>) EXCEPT ![i] = 0] : i \in 1..2}
    \cup {<<255, 216, 255, 217>>, <<255, 216, 0, 0>>}

DirectCalls ==
  [fn : {"calculateCrc32"}, bytes : CrcInputs, prompt : {<<>>}, state : {"pending"}]
    \cup [fn : {"buildExifTiff"}, bytes : {<<>>},
          prompt : TiffPrompts \cup LongPrompts \cup OversizePrompts,
          state : {"pending"}]
    \cup [fn : {"injectPngExif", "injectJpegExif"},
          bytes : PngBuffers \cup JpegBuffers \cup UnsignedBuffers,
          prompt : {<<97, 98, 99>>, <<>>}, state : {"pending"}]
    \cup [fn : {"injectJpegExif"},
          bytes : {<<255, 216, 255, 217>>, JpegOf(<<1, 3>>), <<255, 216, 255>>},
          prompt : OversizePrompts, state : {"pending"}]

DirectInit ==
  /\ call \in DirectCalls
  /\ callResult = <<>>
  /\ CRC32_TABLE = buildCrc32Table
  /\ payload = [bytes |-> <<>>, mimeType |-> <<>>, prompt |-> <<>>]
  /\ preferredFormat = <<>>
  /\ pc = "idle"
  /\ bytesWithMetadata = <<>>
  /\ called = "none"
  /\ encoded = <<>>
  /\ raised = FALSE
  /\ extension = <<>>
  /\ files = <<>>
  /\ saves = 0
  /\ fresh = FALSE

\* The variables of saveToTemp, which no call of a function on its own touches.
saveVars ==
  <<payload, preferredFormat, pc, bytesWithMetadata, called, encoded, raised,
    extension, files, saves, fresh>>

DirectInjectPngExif ==
  /\ call.fn = "injectPngExif" /\ call.state = "pending"
  /\ callResult' = injectPngExif(call.bytes, call.prompt)
  /\ call' = [call EXCEPT !.state = "returned"]
  /\ UNCHANGED <<saveVars, CRC32_TABLE>>

DirectInjectJpegExif ==
  /\ call.fn = "injectJpegExif" /\ call.state = "pending"
  /\ callResult' = injectJpegExif(call.bytes, call.prompt)
  /\ call' = [call EXCEPT !.state = "returned"]
  /\ UNCHANGED <<saveVars, CRC32_TABLE>>

DirectBuildExifTiff ==
  /\ call.fn = "buildExifTiff" /\ call.state = "pending"
  /\ callResult' = buildExifTiff(call.prompt)
  /\ call' = [call EXCEPT !.state = "returned"]
  /\ UNCHANGED <<saveVars, CRC32_TABLE>>

DirectCalculateCrc32 ==
  /\ call.fn = "calculateCrc32" /\ call.state = "pending"
  /\ callResult' = calculateCrc32(call.bytes)
  /\ call' = [call EXCEPT !.state = "returned"]
  /\ UNCHANGED <<saveVars, CRC32_TABLE>>

DirectNext ==
  \/ DirectInjectPngExif
  \/ DirectInjectJpegExif
  \/ DirectBuildExifTiff
  \/ DirectCalculateCrc32

DirectSpec == DirectInit /\ [][DirectNext]_vars

\* ------------------------------------ saveToTemp calls in flight together
\* saveToTemp is async: a call gives up control at `await mkdir` and at
\* `await writeFile`, where other calls run; between the two awaits it runs
\* to completion, attachPromptMetadata included.  Here `call` and `callResult`
\* hold one entry per call.  The module is loaded first, which builds
\* CRC32_TABLE; no function of it can be called before.

CallIds == 1..MaxCalls

\* The payloads of the calls in flight: the 1x1 PNG with two prompts, a
\* JPEG, the PNG declared as WebP.
ConcurrentPayloads ==
  Payloads({ONE_BY_ONE_PNG}, {MimePng}, {<<97, 98, 99>>, <<110, 101, 119>>})
    \cup Payloads({JpegOf(<<1, 2>>)}, {MimeJpeg}, {<<97, 98, 99>>})
    \cup Payloads({ONE_BY_ONE_PNG}, {MimeWebp}, {<<97, 98, 99>>})

\* saveToTemp has not been called under this id.
IdleCall ==
  [fn |-> "saveToTemp", bytes |-> <<>>, mimeType |-> <<>>, prompt |-> <<>>,
   state |-> "idle"]

ConcurrentInit ==
  /\ call = [i \in CallIds |-> IdleCall]
  /\ callResult = [i \in CallIds |-> <<>>]
  /\ CRC32_TABLE = <<>>
  /\ payload = [bytes |-> <<>>, mimeType |-> <<>>, prompt |-> <<>>]
  /\ preferredFormat = ExtPng
  /\ pc = "idle"
  /\ bytesWithMetadata = <<>>
  /\ called = "none"
  /\ encoded = <<>>
  /\ raised = FALSE
  /\ extension = <<>>
  /\ files = <<>>
  /\ saves = 0
  /\ fresh = FALSE

\* The variables of the one-call specification that the calls in flight
\* together do not use; `files` is the file system they share.
soloVars ==
  <<payload, preferredFormat, pc, bytesWithMetadata, called, encoded, raised,
    extension, saves, fresh>>

\* The module is evaluated: const CRC32_TABLE = buildCrc32Table().
LoadModule ==
  /\ CRC32_TABLE = <<>>
  /\ CRC32_TABLE' = buildCrc32Table
  /\ UNCHANGED <<soloVars, files, directVars>>

\* saveToTemp(payload, ...) is called and runs up to `await mkdir`.
CallSaveToTemp(i) ==
  /\ CRC32_TABLE # <<>>
  /\ call[i].state = "idle"
  /\ \E p \in ConcurrentPayloads :
       call' = [call EXCEPT ![i] = [fn |-> "saveToTemp", bytes |-> p.bytes,
                                    mimeType |-> p.mimeType, prompt |-> p.prompt,
                                    state |-> "mkdir"]]
  /\ UNCHANGED <<callResult, CRC32_TABLE, soloVars, files>>

\* attachPromptMetadata of a call that scribbles over entry 0 of the shared
\* table when it returns.
ResumeAfterMkdirScribbling(i) ==
  /\ call[i].state = "mkdir"
  /\ callResult' = [callResult EXCEPT ![i] =
                      attachPromptMetadata(call[i].bytes, call[i].mimeType,
                                           call[i].prompt)]
  /\ call' = [call EXCEPT ![i].state = "writing"]
  /\ CRC32_TABLE' = [CRC32_TABLE EXCEPT ![0] = <<65535, 65535>>]
  /\ UNCHANGED <<soloVars, files>>

\* mkdir resolved: the call runs from there to `await writeFile`, through
\* resolveExtension and attachPromptMetadata.
ResumeAfterMkdir(i) ==
  /\ call[i].state = "mkdir"
  /\ callResult' = [callResult EXCEPT ![i] =
                      attachPromptMetadata(call[i].bytes, call[i].mimeType,
                                           call[i].prompt)]
  /\ call' = [call EXCEPT ![i].state = "writing"]
  /\ UNCHANGED <<CRC32_TABLE, soloVars, files>>

\* writeFile resolved: the file is there and the call returns its path.
ResumeAfterWriteFile(i) ==
  /\ call[i].state = "writing"
  /\ files' = Append(files,
                     [extension |-> resolveExtension(call[i].mimeType, preferredFormat),
                      bytes |-> callResult[i].bytes])
  /\ call' = [call EXCEPT ![i].state = "returned"]
  /\ UNCHANGED <<callResult, CRC32_TABLE, soloVars>>

\* mkdir or writeFile rejected: the call rejects.
RejectCall(i) ==
  /\ call[i].state \in {"mkdir", "writing"}
  /\ call' = [call EXCEPT ![i].state = "rejected"]
  /\ UNCHANGED <<callResult, CRC32_TABLE, soloVars, files>>

ConcurrentNext ==
  \/ LoadModule
  \/ \E i \in CallIds : CallSaveToTemp(i)
  \/ \E i \in CallIds : ResumeAfterMkdir(i)
  \/ \E i \in CallIds : ResumeAfterWriteFile(i)
  \/ \E i \in CallIds : RejectCall(i)

ConcurrentSpec == ConcurrentInit /\ [][ConcurrentNext]_vars

\* ------------------------------------------ GeminiImageService.generateImage
\* One call of generateImage, with sendWithRetry inside it.  `call` holds the
\* arguments, the position of the call and what its fetch attempts did;
\* `callResult` holds how the call ended.  The abort signal of the caller,
\* the API key provider and the fetch implementation are the environment.

\* for (let attempt = 1; attempt <= 2; attempt += 1)
MaxAttempts == 2

\* The statuses the responses of the model carry.
Statuses == {200, 204, 401, 499, 500, 503}

\* options.modelId: "m", "models/m", " Models/m ", blank, "models/".
ModelIds ==
  {<<109>>, <<109, 111, 100, 101, 108, 115, 47, 109>>,
   <<32, 77, 111, 100, 101, 108, 115, 47, 109, 32>>, <<32, 32>>,
   <<109, 111, 100, 101, 108, 115, 47>>}

\* modelId.trim().replace(/^models\//i, '')
normalizeModelId(modelId) ==
  LET StripPrefix(t) ==
        IF Len(t) >= 7 /\ toLowerCase(SubSeq(t, 1, 7)) = <<109, 111, 100, 101, 108, 115, 47>>
          THEN SubSeq(t, 8, Len(t))
        ELSE t
  IN StripPrefix(trim(modelId))

\* How a call ends, or that it has not ended.
Outcome(kind, status) == [kind |-> kind, status |-> status]

Pending == Outcome("pending", 0)

\* What one fetch attempt did.
NoAttempt == [kind |-> "none", status |-> 0]

Threw == [kind |-> "threw", status |-> 0]

Responded(status) == [kind |-> "response", status |-> status]

\* The calls of generateImage: abortSignal absent, not aborted or aborted
\* before the call; the global fetch, which rejects once its signal has
\* aborted, or an injected FetchLike that does not look at the signal (as
\* the mocks of the tests); a provider with or without a key.
GeminiCalls ==
  [fn : {"generateImage"}, state : {"called"},
   signal : {"none", "live", "aborted"}, fetchImpl : {"fetch", "mock"},
   apiKey : BOOLEAN, modelId : ModelIds,
   attempt : {0}, fetches : {0}, first : {NoAttempt}, second : {NoAttempt},
   abortedAt : {[state |-> "none", attempt |-> 0]}, response : {NoAttempt}]

GeminiInit ==
  /\ call \in GeminiCalls
  /\ callResult = Pending
  /\ CRC32_TABLE = buildCrc32Table
  /\ payload = [bytes |-> <<>>, mimeType |-> <<>>, prompt |-> <<>>]
  /\ preferredFormat = <<>>
  /\ pc = "idle"
  /\ bytesWithMetadata = <<>>
  /\ called = "none"
  /\ encoded = <<>>
  /\ raised = FALSE
  /\ extension = <<>>
  /\ files = <<>>
  /\ saves = 0
  /\ fresh = FALSE

\* The call is at an await or not yet entered.
InFlight == call.fn = "generateImage" /\ call.state \notin {"returned", "rejected"}

\* The call rejects with the error of the given kind.
Rejected(c, kind, status) ==
  [call |-> [c EXCEPT !.state = "rejected"], result |-> Outcome(kind, status)]

\* The head of the loop of sendWithRetry without the test of the signal.
BeginAttemptUnchecked(c, attempt) ==
  [call |-> [c EXCEPT !.state = "fetching", !.attempt = attempt,
                      !.fetches = c.fetches + 1],
   result |-> Pending]

\* The head of the loop of sendWithRetry for the given attempt, up to
\* `await this.fetchImpl(...)`: the test of the signal, composeAbortSignal,
\* the call of fetchImpl.
BeginAttempt(c, attempt) ==
  IF c.signal = "aborted" THEN Rejected(c, "operationCancelled", 0)
  ELSE [call |-> [c EXCEPT !.state = "fetching", !.attempt = attempt,
                           !.fetches = c.fetches + 1],
        result |-> Pending]

\* The record of what the attempt in flight did.
Attempted(c, what) ==
  IF c.attempt = 1 THEN [c EXCEPT !.first = what] ELSE [c EXCEPT !.second = what]

\* The caller aborts the signal while the call is under way.
AbortSignal ==
  /\ InFlight
  /\ call.signal = "live"
  /\ call' = [call EXCEPT !.signal = "aborted",
                          !.abortedAt = [state |-> call.state, attempt |-> call.attempt]]
  /\ UNCHANGED <<callResult, CRC32_TABLE, saveVars>>

\* generateImage is entered and runs up to `await getGeminiApiKey()`.
GenerateImage ==
  /\ call.fn = "generateImage" /\ call.state = "called"
  /\ \E next \in {IF call.signal = "aborted"
                    THEN Rejected(call, "operationCancelled", 0)
                  ELSE [call |-> [call EXCEPT !.state = "awaitKey"],
                        result |-> Pending]} :
       call' = next.call /\ callResult' = next.result
  /\ UNCHANGED <<CRC32_TABLE, saveVars>>

\* getGeminiApiKey resolves: the tests of the key and of the model id, the
\* request body, and sendWithRetry up to its first await.
KeyResolves ==
  /\ call.fn = "generateImage" /\ call.state = "awaitKey"
  /\ \E next \in {IF ~call.apiKey THEN Rejected(call, "noGeminiApiKey", 0)
                  ELSE IF normalizeModelId(call.modelId) = <<>>
                    THEN Rejected(call, "modelIdEmpty", 0)
                  ELSE BeginAttempt(call, 1)} :
       call' = next.call /\ callResult' = next.result
  /\ UNCHANGED <<CRC32_TABLE, saveVars>>

\* getGeminiApiKey rejects: the error of the provider leaves generateImage.
KeyRejects ==
  /\ call.fn = "generateImage" /\ call.state = "awaitKey"
  /\ call' = [call EXCEPT !.state = "rejected"]
  /\ callResult' = Outcome("providerError", 0)
  /\ UNCHANGED <<CRC32_TABLE, saveVars>>

\* fetchImpl resolves, retrying after every first response that is not a
\* success (status 400 and up).
FetchResolvesRetryingClientErrors ==
  /\ call.fn = "generateImage" /\ call.state = "fetching"
  /\ ~(call.fetchImpl = "fetch" /\ call.signal = "aborted")
  /\ \E status \in Statuses :
       \E next \in {IF call.attempt = 1 /\ status >= 400
                      THEN BeginAttempt(Attempted(call, Responded(status)),
                                        call.attempt + 1)
                    ELSE [call |-> [Attempted(call, Responded(status))
                                      EXCEPT !.state = "response",
                                             !.response = Responded(status)],
                          result |-> Pending]} :
         call' = next.call /\ callResult' = next.result
  /\ UNCHANGED <<CRC32_TABLE, saveVars>>

\* fetchImpl resolves with a response: cleanup, then `continue` after a
\* first 5xx, which is the head of the loop for the next attempt, or the
\* return of the response to generateImage, up to its await of the body.
FetchResolves ==
  /\ call.fn = "generateImage" /\ call.state = "fetching"
  /\ ~(call.fetchImpl = "fetch" /\ call.signal = "aborted")
  /\ \E status \in Statuses :
       \E next \in {IF call.attempt = 1 /\ status >= 500
                      THEN BeginAttempt(Attempted(call, Responded(status)),
                                        call.attempt + 1)
                    ELSE [call |-> [Attempted(call, Responded(status))
                                      EXCEPT !.state = "response",
                                             !.response = Responded(status)],
                          result |-> Pending]} :
         call' = next.call /\ callResult' = next.result
  /\ UNCHANGED <<CRC32_TABLE, saveVars>>

\* fetchImpl rejects (no network, the 60 s timeout, the abort): cleanup,
\* then the catch clause, and from there the next attempt or the error
\* after the loop.
FetchRejects ==
  /\ call.fn = "generateImage" /\ call.state = "fetching"
  /\ \E next \in {IF call.signal = "aborted"
                    THEN Rejected(Attempted(call, Threw), "operationCancelled", 0)
                  ELSE IF call.attempt = MaxAttempts
                    THEN Rejected(Attempted(call, Threw), "geminiNetwork", 0)
                  ELSE BeginAttempt(Attempted(call, Threw), call.attempt + 1)} :
       call' = next.call /\ callResult' = next.result
  /\ UNCHANGED <<CRC32_TABLE, saveVars>>

\* The body of the response is read: the error text of a response that is
\* not ok (status outside 200..299), else the JSON with or without an image.
ReadResponse ==
  /\ call.fn = "generateImage" /\ call.state = "response"
  /\ \E hasImage \in BOOLEAN :
       \E next \in {IF call.response.status < 200 \/ call.response.status > 299
                      THEN Rejected(call, "geminiFailed", call.response.status)
                    ELSE IF ~hasImage THEN Rejected(call, "geminiNoImage", 0)
                    ELSE [call |-> [call EXCEPT !.state = "returned"],
                          result |-> Outcome("image", call.response.status)]} :
         call' = next.call /\ callResult' = next.result
  /\ UNCHANGED <<CRC32_TABLE, saveVars>>

GeminiNext ==
  \/ AbortSignal
  \/ GenerateImage
  \/ KeyResolves
  \/ KeyRejects
  \/ FetchResolves
  \/ FetchRejects
  \/ ReadResponse

GeminiSpec == GeminiInit /\ [][GeminiNext]_vars

\* ------------------------------------------------------ selectPreferredModel
\* The model selection of the Copilot prompt service, a function of the
\* list of models and the preferred name.  A field that is undefined and
\* one that is '' are both the empty string: the code reads fields through
\* normalize only.

\* (value ?? '').trim().toLowerCase()
normalize(value) == toLowerCase(trim(value))

\* String.prototype.includes
includes(hay, needle) ==
  \E i \in 1..(Len(hay) - Len(needle) + 1) : SubSeq(hay, i, i + Len(needle) - 1) = needle

\* candidates.some((candidate) => normalize(candidate).includes(needle))
includesAnyField(model, needle) ==
  \E candidate \in {model.id, model.family, model.version, model.name} :
    includes(normalize(candidate), needle)

\* models.find(predicate) as an index from 1, 0 when nothing is found;
\* `matches` holds for each model what the predicate says of it.
findIndexOf(matches) ==
  IF \A i \in 1..Len(matches) : ~matches[i] THEN 0
  ELSE CHOOSE i \in 1..Len(matches) :
         /\ matches[i]
         /\ \A j \in 1..(i - 1) : ~matches[j]

\* The result of a selection: the error, or the element of the list that
\* is returned, with its place in the list.
Selected(models, index) == [threw |-> FALSE, index |-> index, model |-> models[index]]

\* selectPreferredModel looking for the name before the id.
selectPreferredModelNameFirst(models, preferred) ==
  LET IdIs(model) == normalize(model.id) = normalize(preferred)
      NameIs(model) == normalize(model.name) = normalize(preferred)
      FamilyOrVersionIs(model) ==
        normalize(preferred) \in {normalize(model.family), normalize(model.version)}
      Partial(model) == includesAnyField(model, normalize(preferred))
      Where(Matches(_)) == [i \in 1..Len(models) |-> Matches(models[i])]
  IN IF Len(models) = 0 THEN [threw |-> TRUE, index |-> 0, model |-> <<>>]
     ELSE IF normalize(preferred) = <<>> THEN Selected(models, 1)
     ELSE IF findIndexOf(Where(NameIs)) # 0
       THEN Selected(models, findIndexOf(Where(NameIs)))
     ELSE IF findIndexOf(Where(IdIs)) # 0
       THEN Selected(models, findIndexOf(Where(IdIs)))
     ELSE IF findIndexOf(Where(FamilyOrVersionIs)) # 0
       THEN Selected(models, findIndexOf(Where(FamilyOrVersionIs)))
     ELSE IF findIndexOf(Where(Partial)) # 0
       THEN Selected(models, findIndexOf(Where(Partial)))
     ELSE Selected(models, 1)

selectPreferredModel(models, preferred) ==
  LET IdIs(model) == normalize(model.id) = normalize(preferred)
      NameIs(model) == normalize(model.name) = normalize(preferred)
      FamilyOrVersionIs(model) ==
        normalize(preferred) \in {normalize(model.family), normalize(model.version)}
      Partial(model) == includesAnyField(model, normalize(preferred))
      Where(Matches(_)) == [i \in 1..Len(models) |-> Matches(models[i])]
  IN IF Len(models) = 0 THEN [threw |-> TRUE, index |-> 0, model |-> <<>>]
     ELSE IF normalize(preferred) = <<>> THEN Selected(models, 1)
     ELSE IF findIndexOf(Where(IdIs)) # 0
       THEN Selected(models, findIndexOf(Where(IdIs)))
     ELSE IF findIndexOf(Where(NameIs)) # 0
       THEN Selected(models, findIndexOf(Where(NameIs)))
     ELSE IF findIndexOf(Where(FamilyOrVersionIs)) # 0
       THEN Selected(models, findIndexOf(Where(FamilyOrVersionIs)))
     ELSE IF findIndexOf(Where(Partial)) # 0
       THEN Selected(models, findIndexOf(Where(Partial)))
     ELSE Selected(models, 1)

\* A ModelDescriptor; vendor is read by no function.
ModelDescriptor(id, family, version, name) ==
  [id |-> id, family |-> family, version |-> version, name |-> name]

\* The models of the lists: with "ab" as id, as name, as family, " AB " as
\* version, "cabd" as id, "zab" as name without an id, "Ab " as id and "ab"
\* as name of another, and one that holds none of these.
ModelDescriptors ==
  {ModelDescriptor(<<97, 98>>, <<>>, <<>>, <<120>>),
   ModelDescriptor(<<120>>, <<>>, <<>>, <<97, 98>>),
   ModelDescriptor(<<99>>, <<97, 98>>, <<>>, <<>>),
   ModelDescriptor(<<100>>, <<>>, <<32, 65, 66, 32>>, <<>>),
   ModelDescriptor(<<99, 97, 98, 100>>, <<>>, <<>>, <<>>),
   ModelDescriptor(<<>>, <<>>, <<>>, <<122, 97, 98>>),
   ModelDescriptor(<<65, 98, 32>>, <<97>>, <<>>, <<113>>),
   ModelDescriptor(<<113>>, <<113>>, <<113>>, <<113>>)}

\* The preferences: "ab", " AB ", "a", "", "  ", "zz".
Preferences ==
  {<<97, 98>>, <<32, 65, 66, 32>>, <<97>>, <<>>, <<32, 32>>, <<122, 122>>}

SelectCalls ==
  [fn : {"selectPreferredModel"}, models : SeqsUpTo(ModelDescriptors, MaxModels),
   preferred : Preferences, state : {"pending"}]

SelectInit ==
  /\ call \in SelectCalls
  /\ callResult = <<>>
  /\ CRC32_TABLE = buildCrc32Table
  /\ payload = [bytes |-> <<>>, mimeType |-> <<>>, prompt |-> <<>>]
  /\ preferredFormat = <<>>
  /\ pc = "idle"
  /\ bytesWithMetadata = <<>>
  /\ called = "none"
  /\ encoded = <<>>
  /\ raised = FALSE
  /\ extension = <<>>
  /\ files = <<>>
  /\ saves = 0
  /\ fresh = FALSE

SelectPreferredModel ==
  /\ call.fn = "selectPreferredModel" /\ call.state = "pending"
  /\ callResult' = selectPreferredModel(call.models, call.preferred)
  /\ call' = [call EXCEPT !.state = "returned"]
  /\ UNCHANGED <<saveVars, CRC32_TABLE>>

SelectSpec == SelectInit /\ [][SelectPreferredModel]_vars

\* ------------------------------------------------ readers for the properties
\* An independent reading of the formats, used only to state properties.

HasPngSignature(b) == Len(b) >= 8 /\ SubSeq(b, 1, 8) = <<137, 80, 78, 71, 13, 10, 26, 10>>

\* The length field of the chunk at offset o; 2^24 stands for every larger
\* value (no buffer of the model is that long).
DeclaredLength(b, o) ==
  IF b[o + 1] > 0 THEN 16777216
  ELSE (b[o + 2] * 65536) + (b[o + 3] * 256) + b[o + 4]

\* A whole chunk lies at offset o.
WholeChunkAt(b, o) == o + 12 <= Len(b) /\ o + 12 + DeclaredLength(b, o) <= Len(b)

\* The chunks read from offset o on, as [length, type, data, crc] with the
\* stored bytes of each field, up to the first place where no whole chunk lies.
RECURSIVE ChunksFrom(_, _)
ChunksFrom(b, o) ==
  IF ~WholeChunkAt(b, o) THEN <<>>
  ELSE <<[length |-> SubSeq(b, o + 1, o + 4),
          type |-> SubSeq(b, o + 5, o + 8),
          data |-> SubSeq(b, o + 9, o + 8 + DeclaredLength(b, o)),
          crc |-> SubSeq(b, o + 9 + DeclaredLength(b, o), o + 12 + DeclaredLength(b, o))]>>
         \o ChunksFrom(b, o + 12 + DeclaredLength(b, o))

\* Every chunk of the buffer, also those after IEND.
AllChunks(b) == IF HasPngSignature(b) THEN ChunksFrom(b, 8) ELSE <<>>

\* The offset at which the chunks of the list end.
RECURSIVE ChunksEnd(_, _)
ChunksEnd(list, i) ==
  IF i > Len(list) THEN 8 ELSE 12 + Len(list[i].data) + ChunksEnd(list, i + 1)

\* The buffer is the signature followed by whole chunks and nothing else.
IsChunked(b) ==
  LET Ends(list) == ChunksEnd(list, 1) = Len(b)
  IN HasPngSignature(b) /\ Ends(ChunksFrom(b, 8))

TypeCount(list, type) == Cardinality({i \in 1..Len(list) : list[i].type = type})

\* A valid PNG as far as its chunk layout goes: the signature, whole chunks
\* and nothing else, IHDR first, IEND last and only there, at least one IDAT.
\* The stored CRCs are not looked at: the 1x1 PNG of the tests stores a wrong
\* CRC in its IDAT chunk.
IsValidPng(b) ==
  LET Valid(list) ==
        /\ Len(list) >= 3
        /\ list[1].type = <<73, 72, 68, 82>>
        /\ list[Len(list)].type = <<73, 69, 78, 68>>
        /\ TypeCount(list, <<73, 69, 78, 68>>) = 1
        /\ TypeCount(list, <<73, 68, 65, 84>>) >= 1
  IN IsChunked(b) /\ Valid(ChunksFrom(b, 8))

\* A chunk is cut by the end of the buffer before any IEND: after the whole
\* chunks read so far some bytes remain and hold no whole chunk.
RECURSIVE CutBeforeIend(_, _)
CutBeforeIend(b, o) ==
  IF o >= Len(b) THEN FALSE
  ELSE IF ~WholeChunkAt(b, o) THEN TRUE
  ELSE IF SubSeq(b, o + 5, o + 8) = <<73, 69, 78, 68>> THEN FALSE
  ELSE CutBeforeIend(b, o + 12 + DeclaredLength(b, o))

HasTruncatedChunkTable(b) == HasPngSignature(b) /\ CutBeforeIend(b, 8)

\* A chunk header whose length field is in the buffer declares more bytes
\* than the buffer holds, before any IEND.
RECURSIVE OverrunBeforeIend(_, _)
OverrunBeforeIend(b, o) ==
  IF o + 4 > Len(b) THEN FALSE
  ELSE IF o + 12 + DeclaredLength(b, o) > Len(b) THEN TRUE
  ELSE IF SubSeq(b, o + 5, o + 8) = <<73, 69, 78, 68>> THEN FALSE
  ELSE OverrunBeforeIend(b, o + 12 + DeclaredLength(b, o))

HasOverrunningChunk(b) == HasPngSignature(b) /\ OverrunBeforeIend(b, 8)

HasJpegSoi(b) == Len(b) >= 2 /\ b[1] = 255 /\ b[2] = 216

\* A marker with a length field lies at offset o (not EOI, not SOS).
SegmentHeaderAt(b, o) ==
  o + 4 <= Len(b) /\ b[o + 1] = 255 /\ b[o + 2] \notin {216, 217, 218, 255, 0}

SegmentLength(b, o) == (b[o + 3] * 256) + b[o + 4]

\* The marker segments after SOI, as [marker, payload], up to EOI, SOS or the
\* first place where no whole segment lies.
RECURSIVE SegmentsFrom(_, _)
SegmentsFrom(b, o) ==
  IF ~SegmentHeaderAt(b, o) \/ o + 2 + SegmentLength(b, o) > Len(b)
       \/ SegmentLength(b, o) < 2
    THEN <<>>
  ELSE <<[marker |-> b[o + 2],
          payload |-> SubSeq(b, o + 5, o + 2 + SegmentLength(b, o))]>>
         \o SegmentsFrom(b, o + 2 + SegmentLength(b, o))

AllSegments(b) == IF HasJpegSoi(b) THEN SegmentsFrom(b, 2) ELSE <<>>

RECURSIVE SegmentsEnd(_, _)
SegmentsEnd(list, i) ==
  IF i > Len(list) THEN 2 ELSE 4 + Len(list[i].payload) + SegmentsEnd(list, i + 1)

\* A valid JPEG as far as its marker layout goes: SOI, whole segments, EOI.
IsValidJpeg(b) ==
  LET Ends(at) == at + 2 = Len(b) /\ b[at + 1] = 255 /\ b[at + 2] = 217
  IN HasJpegSoi(b) /\ Len(b) >= 4 /\ Ends(SegmentsEnd(SegmentsFrom(b, 2), 1))

\* A segment header declares more bytes than the buffer holds.
RECURSIVE SegmentOverrunFrom(_, _)
SegmentOverrunFrom(b, o) ==
  IF ~SegmentHeaderAt(b, o) THEN FALSE
  ELSE IF o + 2 + SegmentLength(b, o) > Len(b) THEN TRUE
  ELSE IF SegmentLength(b, o) < 2 THEN FALSE
  ELSE SegmentOverrunFrom(b, o + 2 + SegmentLength(b, o))

HasOverrunningSegment(b) == HasJpegSoi(b) /\ SegmentOverrunFrom(b, 2)

IsExifSegment(segment) ==
  /\ segment.marker = 225
  /\ Len(segment.payload) >= 6
  /\ SubSeq(segment.payload, 1, 6) = <<69, 120, 105, 102, 0, 0>>

ExifSegmentCount(list) == Cardinality({i \in 1..Len(list) : IsExifSegment(list[i])})

\* What an EXIF reader finds as ImageDescription in a TIFF blob: the bytes of
\* the value without the closing NUL, or <<-1>> when the blob does not hold
\* one well-formed big-endian IFD0 with that single ASCII entry.
TiffDescription(t) ==
  LET Value(count) ==
        IF count <= 4 THEN SubSeq(t, 19, 18 + count)
        ELSE IF t[19] = 0 /\ t[20] = 0 /\ (t[21] * 256) + t[22] + count <= Len(t)
          THEN SubSeq(t, (t[21] * 256) + t[22] + 1, (t[21] * 256) + t[22] + count)
        ELSE <<-1>>
      Strip(value) ==
        IF value # <<>> /\ value[Len(value)] = 0 THEN SubSeq(value, 1, Len(value) - 1)
        ELSE <<-1>>
  IN IF /\ Len(t) >= 26
        /\ SubSeq(t, 1, 14) = <<77, 77, 0, 42, 0, 0, 0, 8, 0, 1, 1, 14, 0, 2>>
        /\ SubSeq(t, 15, 16) = <<0, 0>>
        /\ SubSeq(t, 23, 26) = <<0, 0, 0, 0>>
       THEN Strip(Value((t[17] * 256) + t[18]))
     ELSE <<-1>>

\* The UTF-16 code units of the character that starts at byte i of
\* well-formed UTF-8 (nothing at a continuation byte).
Utf16At(u, i) ==
  IF u[i] < 128 THEN <<u[i]>>
  ELSE IF u[i] < 192 THEN <<>>
  ELSE IF u[i] < 224 THEN <<((u[i] - 192) * 64) + (u[i + 1] - 128)>>
  ELSE IF u[i] < 240
    THEN <<((u[i] - 224) * 4096) + ((u[i + 1] - 128) * 64) + (u[i + 2] - 128)>>
  ELSE LET Pair(cp) == <<55296 + ((cp - 65536) \div 1024), 56320 + ((cp - 65536) % 1024)>>
       IN Pair(((u[i] - 240) * 262144) + ((u[i + 1] - 128) * 4096)
                 + ((u[i + 2] - 128) * 64) + (u[i + 3] - 128))

RECURSIVE Utf16Range(_, _, _)
Utf16Range(u, lo, hi) ==
  IF lo > hi THEN <<>>
  ELSE IF lo = hi THEN Utf16At(u, lo)
  ELSE Utf16Range(u, lo, (lo + hi) \div 2) \o Utf16Range(u, ((lo + hi) \div 2) + 1, hi)

\* The string a reader decodes from UTF-8 bytes.
DecodeUtf8(u) == Utf16Range(u, 1, Len(u))

\* needle occurs in hay as a run of consecutive bytes.
Contains(hay, needle) ==
  \E i \in 0..(Len(hay) - Len(needle)) : SubSeq(hay, i + 1, i + Len(needle)) = needle

IsBlank(s) == \A i \in 1..Len(s) : IsWhiteSpace(s[i])

\* The text the specification calls the normalized prompt: the words of the
\* prompt (maximal runs of units that are not white space) joined by single
\* spaces, cut to its first MaxPromptLength units.
NormalizedPromptOf(s) ==
  LET Kept(c) == c # -1
      Joined(marked) == SubSeq(marked, 1, Min(Len(marked), MaxPromptLength))
  IN Joined(SelectSeq([i \in 1..Len(s) |->
                         IF ~IsWhiteSpace(s[i]) THEN s[i]
                         ELSE IF /\ i > 1
                                 /\ ~IsWhiteSpace(s[i - 1])
                                 /\ \E j \in (i + 1)..Len(s) : ~IsWhiteSpace(s[j])
                           THEN 32
                         ELSE -1],
                      Kept))

\* The MIME type after trimming and lower-casing, as the dispatch reads it.
MimeKind(mimeType) ==
  LET Kind(m) == IF m = MimePng THEN "png"
                 ELSE IF m = MimeJpeg \/ m = MimeJpg THEN "jpeg"
                 ELSE "other"
  IN Kind(toLowerCase(trim(mimeType)))

\* attachPromptMetadata has returned in the current call.
Attached == pc \in {"writing", "returned"}

\* ------------------------------------------------------------ properties

\* The UTF-8 bytes of the normalized prompt of the current call.
PromptBytes == BufferFromUtf8(NormalizedPromptOf(payload.prompt))

\* The buffer carries the given text as EXIF ImageDescription: in an eXIf
\* chunk of a PNG, or in an APP1 Exif segment of a JPEG.
CarriesDescription(b, text) ==
  \/ \E i \in 1..Len(AllChunks(b)) :
       /\ AllChunks(b)[i].type = <<101, 88, 73, 102>>
       /\ TiffDescription(AllChunks(b)[i].data) = text
  \/ \E i \in 1..Len(AllSegments(b)) :
       /\ IsExifSegment(AllSegments(b)[i])
       /\ TiffDescription(SubSeq(AllSegments(b)[i].payload, 7,
                                 Len(AllSegments(b)[i].payload))) = text

\* One of the failures the specification lists holds of the current call.
ListedFailure ==
  \/ IsBlank(payload.prompt)
  \/ MimeKind(payload.mimeType) = "other"
  \/ /\ MimeKind(payload.mimeType) = "png"
     /\ (~HasPngSignature(payload.bytes) \/ HasTruncatedChunkTable(payload.bytes))
  \/ /\ MimeKind(payload.mimeType) = "jpeg"
     /\ \/ Len(payload.bytes) < 4
        \/ ~HasJpegSoi(payload.bytes)
        \/ 6 + 26 + Len(PromptBytes) + 1 + 2 > 65535

\* C1: attachPromptMetadata never raises and returns either an image that
\* carries the prompt as metadata or the input bytes unchanged; with a bad
\* signature, a truncated chunk table, an oversize segment, an empty prompt
\* or an unsupported MIME type it returns the input bytes unchanged.
C1_NeverRaisesAndFallsBack ==
  pc = "writing" =>
    /\ ~raised
    /\ \/ bytesWithMetadata = payload.bytes
       \/ CarriesDescription(bytesWithMetadata, PromptBytes)
    /\ ListedFailure => bytesWithMetadata = payload.bytes

\* C2: for a valid PNG and a non-empty normalized prompt the output of the
\* PNG path starts with the signature of the input, is made of whole chunks
\* the last of which is IEND, and every chunk stores the length of its data
\* and the CRC-32 of its type and data.
C2_PngOutputWellFormed ==
  (pc = "writing" /\ called = "png" /\ IsValidPng(payload.bytes)) =>
    LET Sound(list) ==
          /\ Len(list) >= 1
          /\ list[Len(list)].type = <<73, 69, 78, 68>>
          /\ \A i \in 1..Len(list) :
               /\ list[i].crc = U32PairBytes(Crc32Bitwise(list[i].type \o list[i].data))
               /\ list[i].length = <<0, 0, Len(list[i].data) \div 256,
                                     Len(list[i].data) % 256>>
    IN /\ SubSeq(bytesWithMetadata, 1, 8) = SubSeq(payload.bytes, 1, 8)
       /\ IsChunked(bytesWithMetadata)
       /\ Sound(AllChunks(bytesWithMetadata))

\* C2 witness: a valid PNG that already holds an eXIf chunk went through the
\* PNG path and came out changed.
C2_Witness ==
  /\ pc = "writing"
  /\ called = "png"
  /\ IsValidPng(payload.bytes)
  /\ TypeCount(AllChunks(payload.bytes), <<101, 88, 73, 102>>) >= 1
  /\ bytesWithMetadata # payload.bytes
  /\ Len(AllChunks(bytesWithMetadata)) >= 4

\* The (type, data) list of a list of chunks, without its eXIf chunks.
WithoutExif(list) ==
  LET NotExif(c) == c.type # <<101, 88, 73, 102>>
  IN SelectSeq([i \in 1..Len(list) |-> [type |-> list[i].type, data |-> list[i].data]],
               NotExif)

\* C3 as written: on the PNG path, the chunks of the output without the
\* injected eXIf chunk are exactly the (type, data) chunk list parsed from
\* the input, in the same order.
C3_RoundTripWholeInputList ==
  (pc = "writing" /\ called = "png" /\ bytesWithMetadata # payload.bytes) =>
    /\ TypeCount(AllChunks(bytesWithMetadata), <<101, 88, 73, 102>>) = 1
    /\ WithoutExif(AllChunks(bytesWithMetadata)) = extractPngChunks(payload.bytes).chunks

\* C3, amended: on the PNG path the output holds exactly one eXIf chunk, and
\* its chunks without that one are exactly the (type, data) chunk list parsed
\* from the input without the eXIf chunks the input had, in the same order.
C3_RoundTripWithoutInputExif ==
  (pc = "writing" /\ called = "png" /\ bytesWithMetadata # payload.bytes) =>
    /\ TypeCount(AllChunks(bytesWithMetadata), <<101, 88, 73, 102>>) = 1
    /\ WithoutExif(AllChunks(bytesWithMetadata))
         = WithoutExif(extractPngChunks(payload.bytes).chunks)

\* C3 witness: the PNG path rebuilt an input that held two eXIf chunks and
\* an IDAT chunk.
C3_Witness ==
  /\ pc = "writing"
  /\ called = "png"
  /\ bytesWithMetadata # payload.bytes
  /\ TypeCount(extractPngChunks(payload.bytes).chunks, <<101, 88, 73, 102>>) = 2
  /\ TypeCount(extractPngChunks(payload.bytes).chunks, <<73, 68, 65, 84>>) = 1

\* C4: whatever eXIf chunks the PNG had and however many calls came before,
\* the result for every valid PNG, and every result that differs from its
\* input, is made of whole chunks of which exactly one is an eXIf chunk,
\* whose ImageDescription is the normalized prompt of this last call; the
\* result for a valid PNG is a valid PNG again.
C4_ReembeddingReplaces ==
  (pc = "writing" /\ called = "png") =>
    /\ IsValidPng(payload.bytes) => IsValidPng(bytesWithMetadata)
    /\ (IsValidPng(payload.bytes) \/ bytesWithMetadata # payload.bytes) =>
         /\ IsChunked(bytesWithMetadata)
         /\ TypeCount(AllChunks(bytesWithMetadata), <<101, 88, 73, 102>>) = 1
         /\ \A i \in 1..Len(AllChunks(bytesWithMetadata)) :
              AllChunks(bytesWithMetadata)[i].type = <<101, 88, 73, 102>> =>
                TiffDescription(AllChunks(bytesWithMetadata)[i].data) = PromptBytes

\* C4 witness: a second call on the PNG the first call wrote, which carries
\* the eXIf chunk of the first prompt, rebuilt it under another prompt.
C4_Witness ==
  /\ pc = "writing"
  /\ called = "png"
  /\ saves = 2
  /\ IsValidPng(payload.bytes)
  /\ TypeCount(AllChunks(payload.bytes), <<101, 88, 73, 102>>) = 1
  /\ ~CarriesDescription(payload.bytes, PromptBytes)
  /\ bytesWithMetadata # payload.bytes

\* C5: for a valid JPEG, also one that already holds an APP1 Exif segment,
\* the output of the JPEG path begins with FF D8, holds exactly one APP1
\* Exif segment, and the ImageDescription of that segment decodes to the
\* normalized prompt.
C5_JpegExactlyOneExifSegment ==
  (pc = "writing" /\ called = "jpeg" /\ IsValidJpeg(payload.bytes)) =>
    /\ HasJpegSoi(bytesWithMetadata)
    /\ ExifSegmentCount(AllSegments(bytesWithMetadata)) = 1
    /\ \A i \in 1..Len(AllSegments(bytesWithMetadata)) :
         IsExifSegment(AllSegments(bytesWithMetadata)[i]) =>
           DecodeUtf8(TiffDescription(
               SubSeq(AllSegments(bytesWithMetadata)[i].payload, 7,
                      Len(AllSegments(bytesWithMetadata)[i].payload))))
             = NormalizedPromptOf(payload.prompt)

\* C6: when the input holds a PNG chunk or a JPEG segment whose declared
\* length runs past the end of the buffer, the PNG path and the JPEG path
\* return the input bytes unchanged.
C6_OverrunReturnsInput ==
  (/\ pc = "writing"
   /\ \/ called = "png" /\ HasOverrunningChunk(payload.bytes)
      \/ called = "jpeg" /\ HasOverrunningSegment(payload.bytes)) =>
    bytesWithMetadata = payload.bytes

\* What C7 says of the file a returned saveToTemp call wrote, for the
\* payloads of the given set of prompts.
SavedFileCarriesPrompt(saved, tagged) ==
  /\ saved = attachPromptMetadata(payload.bytes, payload.mimeType, payload.prompt).bytes
  /\ (tagged /\ MimeKind(payload.mimeType) = "png" /\ IsValidPng(payload.bytes)) =>
       /\ Contains(saved, <<101, 88, 73, 102>>)
       /\ Contains(saved, PromptBytes)
  /\ (tagged /\ MimeKind(payload.mimeType) = "jpeg" /\ IsValidJpeg(payload.bytes)) =>
       /\ Contains(saved, <<69, 120, 105, 102, 0, 0>>)
       /\ Contains(saved, PromptBytes)

\* C7 as written: the file saveToTemp wrote holds the bytes
\* attachPromptMetadata returns for the payload; for every valid PNG payload
\* it contains eXIf and the UTF-8 bytes of the normalized prompt, for every
\* valid JPEG payload Exif, two NUL bytes and those bytes; each call writes
\* one file, after the metadata step.
C7_SavedFileTaggedForEveryPrompt ==
  /\ Len(files) = IF pc = "returned" THEN saves ELSE saves - 1
  /\ pc = "returned" => SavedFileCarriesPrompt(files[Len(files)].bytes, TRUE)

\* C7, amended: as C7, the tag and the prompt bytes being in the file of
\* every valid PNG or JPEG payload whose prompt does not normalize to the
\* empty string.
C7_SavedFileTaggedForNonBlankPrompt ==
  /\ Len(files) = IF pc = "returned" THEN saves ELSE saves - 1
  /\ pc = "returned" =>
       SavedFileCarriesPrompt(files[Len(files)].bytes, ~IsBlank(payload.prompt))

\* C7 witness: saveToTemp returned after writing the 1x1 PNG of the tests,
\* changed, under the prompt "sunset city cover".
C7_Witness ==
  /\ pc = "returned"
  /\ payload.bytes = ONE_BY_ONE_PNG
  /\ payload.prompt = <<115, 117, 110, 115, 101, 116, 32, 99, 105, 116, 121, 32,
                        99, 111, 118, 101, 114>>
  /\ MimeKind(payload.mimeType) = "png"
  /\ files[Len(files)].bytes # payload.bytes
  /\ Contains(files[Len(files)].bytes, payload.prompt)

\* The codec a MIME type stands for under the given reading of the type.
KindOf(m) ==
  IF m = <<105, 109, 97, 103, 101, 47, 112, 110, 103>> THEN "png"
  ELSE IF m = <<105, 109, 97, 103, 101, 47, 106, 112, 101, 103>>
            \/ m = <<105, 109, 97, 103, 101, 47, 106, 112, 103>> THEN "jpeg"
  ELSE "none"

\* What C8 says of a call with a non-empty normalized prompt whose MIME type
\* reads as `kind`.
DispatchedAs(kind) ==
  /\ kind # "none" => called = kind
  /\ kind = "none" => bytesWithMetadata = payload.bytes
  /\ (kind = "png" /\ IsValidPng(payload.bytes)) =>
       TypeCount(AllChunks(bytesWithMetadata), <<101, 88, 73, 102>>) = 1
  /\ (kind = "jpeg" /\ IsValidJpeg(payload.bytes)) =>
       ExifSegmentCount(AllSegments(bytesWithMetadata)) >= 1

\* C8 as written: with a non-empty normalized prompt the MIME type is read
\* without regard to case; image/png goes to the PNG codec, image/jpeg and
\* image/jpg to the JPEG injector, and every other MIME type gives back the
\* input unchanged.
C8_DispatchOnLowerCasedMime ==
  (pc = "writing" /\ ~IsBlank(payload.prompt)) =>
    DispatchedAs(KindOf(toLowerCase(payload.mimeType)))

\* C8, amended: as C8, the MIME type being read without regard to case and
\* without the white space around it.
C8_DispatchOnTrimmedLowerCasedMime ==
  (pc = "writing" /\ ~IsBlank(payload.prompt)) =>
    DispatchedAs(KindOf(toLowerCase(trim(payload.mimeType))))

\* C8 witness: a MIME type in capitals with white space around it sent a
\* valid PNG to the PNG codec, which rebuilt it.
C8_Witness ==
  /\ pc = "writing"
  /\ ~IsBlank(payload.prompt)
  /\ IsValidPng(payload.bytes)
  /\ payload.mimeType = <<32, 73, 77, 65, 71, 69, 47, 80, 78, 71, 10>>
  /\ called = "png"
  /\ bytesWithMetadata # payload.bytes

\* C9: when the prompt is empty or white space only, attachPromptMetadata
\* returns the input unchanged whatever the MIME type and the buffer are,
\* calls neither the PNG nor the JPEG path, and does not raise.
C9_BlankPromptSkipsEmbedding ==
  (Attached /\ IsBlank(payload.prompt)) =>
    /\ bytesWithMetadata = payload.bytes
    /\ called = "none"
    /\ encoded = <<>>
    /\ ~raised

\* C9 witness: a call with a prompt of white space only, a valid PNG and a
\* PNG MIME type has returned.
C9_Witness ==
  /\ pc = "writing"
  /\ payload.prompt # <<>>
  /\ IsBlank(payload.prompt)
  /\ IsValidPng(payload.bytes)
  /\ MimeKind(payload.mimeType) = "png"

\* C10: normalizePrompt gives the prompt trimmed, its runs of white space
\* made single spaces, cut to its first 2000 units; that value, never longer
\* than 2000 units, is the text handed to the codec and the text found as
\* ImageDescription in every changed output.
C10_NormalizedPromptIsEncoded ==
  pc = "writing" =>
    /\ normalizePrompt(payload.prompt) = NormalizedPromptOf(payload.prompt)
    /\ Len(normalizePrompt(payload.prompt)) <= MaxPromptLength
    /\ called # "none" => encoded = NormalizedPromptOf(payload.prompt)
    /\ bytesWithMetadata # payload.bytes =>
         CarriesDescription(bytesWithMetadata, PromptBytes)

\* C10 witness: a prompt longer than 2000 units was cut to 2000 units, the
\* last of them a space, and written into a changed output.
C10_Witness ==
  /\ pc = "writing"
  /\ Len(payload.prompt) > MaxPromptLength
  /\ Len(encoded) = MaxPromptLength
  /\ encoded[MaxPromptLength] = 32
  /\ bytesWithMetadata # payload.bytes

\* The prompt trimmed and its runs of white space made single spaces, not
\* cut: the words of the prompt joined by single spaces.
CollapsedPromptOf(s) ==
  LET Kept(c) == c # -1
  IN SelectSeq([i \in 1..Len(s) |->
                  IF ~IsWhiteSpace(s[i]) THEN s[i]
                  ELSE IF /\ i > 1
                          /\ ~IsWhiteSpace(s[i - 1])
                          /\ \E j \in (i + 1)..Len(s) : ~IsWhiteSpace(s[j])
                    THEN 32
                  ELSE -1],
               Kept)

\* C11 as written: whenever the prompt is longer than 2000 units, the text
\* handed to the codec has exactly 2000 units.
C11_LongPromptEncodedAt2000 ==
  (pc = "writing" /\ called # "none" /\ Len(payload.prompt) > MaxPromptLength) =>
    Len(encoded) = MaxPromptLength

\* C11, amended: whenever the prompt, trimmed and with its runs of white
\* space made single spaces, is longer than 2000 units, the text handed to
\* the codec has exactly 2000 units; when it is not longer, the text handed
\* to the codec is that whole text.
C11_LongCollapsedPromptEncodedAt2000 ==
  (pc = "writing" /\ called # "none") =>
    IF Len(CollapsedPromptOf(payload.prompt)) > MaxPromptLength
      THEN Len(encoded) = MaxPromptLength
    ELSE encoded = CollapsedPromptOf(payload.prompt)

\* C11 witness: a prompt of more than 2000 units that stays longer than 2000
\* units after trimming and collapsing was handed to the codec at 2000 units.
C11_Witness ==
  /\ pc = "writing"
  /\ called # "none"
  /\ Len(payload.prompt) > MaxPromptLength
  /\ Len(CollapsedPromptOf(payload.prompt)) > MaxPromptLength
  /\ Len(encoded) = MaxPromptLength

\* The call of `fn` on its own has returned.
HasReturned(fn) == call.fn = fn /\ call.state = "returned"

\* The TIFF blob an EXIF writer makes of one ASCII ImageDescription: header,
\* IFD0 with the one entry, next-IFD offset, then the value when it does
\* not fit the entry.
ExpectedTiff(desc) ==
  LET Blob(count) ==
        <<77, 77, 0, 42, 0, 0, 0, 8, 0, 1, 1, 14, 0, 2,
          0, count \div 65536, (count \div 256) % 256, count % 256>>
          \o (IF count <= 4 THEN desc \o [i \in 1..(5 - count) |-> 0]
              ELSE <<0, 0, 0, 26>>)
          \o <<0, 0, 0, 0>>
          \o (IF count <= 4 THEN <<>> ELSE desc \o <<0>>)
  IN Blob(Len(desc) + 1)

\* C12: buildExifTiff(prompt) is 'MM', 0x002A, IFD0 at 8, one entry with tag
\* 0x010E, type 2 and count = UTF-8 length of the prompt + 1, next-IFD
\* offset 0 at bytes 22..25; with count <= 4 the prompt bytes and NUL are in
\* the value field, zero-padded, and the blob has 26 bytes; otherwise the
\* value field holds 26, the prompt bytes and NUL start at 26, and the blob
\* has 26 + count bytes.
C12_TiffLayout ==
  HasReturned("buildExifTiff") =>
    LET Holds(t, desc, count) ==
          /\ Len(t) >= 26
          /\ SubSeq(t, 1, 8) = <<77, 77, 0, 42, 0, 0, 0, 8>>
          /\ SubSeq(t, 9, 10) = <<0, 1>>
          /\ SubSeq(t, 11, 14) = <<1, 14, 0, 2>>
          /\ (t[15] * 16777216) + (t[16] * 65536) + (t[17] * 256) + t[18] = count
          /\ SubSeq(t, 23, 26) = <<0, 0, 0, 0>>
          /\ IF count <= 4
               THEN /\ Len(t) = 26
                    /\ SubSeq(t, 19, 18 + count) = desc \o <<0>>
                    /\ \A i \in (19 + count)..22 : t[i] = 0
             ELSE /\ SubSeq(t, 19, 22) = <<0, 0, 0, 26>>
                  /\ Len(t) = 26 + count
                  /\ SubSeq(t, 27, 26 + count) = desc \o <<0>>
          /\ t = ExpectedTiff(desc)
    IN Holds(callResult, BufferFromUtf8(call.prompt),
             Len(BufferFromUtf8(call.prompt)) + 1)

\* C12 witness: buildExifTiff returned a 26-byte blob with a value of three
\* bytes, zero-padded, in the entry.
C12_Witness ==
  /\ HasReturned("buildExifTiff")
  /\ Len(BufferFromUtf8(call.prompt)) = 2
  /\ Len(callResult) = 26
  /\ SubSeq(callResult, 19, 22) = BufferFromUtf8(call.prompt) \o <<0, 0>>

\* C13: a reader that follows the header of buildExifTiff(prompt) to IFD0,
\* reads the ImageDescription and strips the closing NUL recovers the text of
\* the prompt that was passed in.
C13_TiffRoundTrip ==
  HasReturned("buildExifTiff") =>
    DecodeUtf8(TiffDescription(callResult)) = call.prompt

\* The APP1 length of the given prompt: identifier, TIFF blob, length field.
App1Length(prompt) == 6 + Len(ExpectedTiff(BufferFromUtf8(prompt))) + 2

\* C14: where injectJpegExif succeeds, which it does for every buffer of 4
\* bytes or more that starts with FF D8 when the length fits 16 bits, the
\* output is the SOI of the input, FF E1, the length L = 6 + length of the
\* TIFF blob + 2 in two bytes, the Exif identifier, the TIFF blob, then the
\* input from offset 2 on, which starts in the output at offset 2 + 2 + L.
C14_JpegOutputLayout ==
  HasReturned("injectJpegExif") =>
    LET Holds(out, tiff, L) ==
          /\ callResult.fresh =>
               /\ out = SubSeq(call.bytes, 1, 2) \o <<255, 225, L \div 256, L % 256>>
                          \o <<69, 120, 105, 102, 0, 0>> \o tiff
                          \o SubSeq(call.bytes, 3, Len(call.bytes))
               /\ SubSeq(out, 2 + 2 + L + 1, Len(out))
                    = SubSeq(call.bytes, 3, Len(call.bytes))
               /\ AllSegments(out) # <<>>
               /\ IsExifSegment(AllSegments(out)[1])
          /\ (Len(call.bytes) >= 4 /\ HasJpegSoi(call.bytes) /\ L <= MaxSegmentLength) =>
               callResult.fresh
        Layout(tiff) == Holds(callResult.bytes, tiff, 6 + Len(tiff) + 2)
    IN Layout(ExpectedTiff(BufferFromUtf8(call.prompt)))

\* C14 witness: injectJpegExif succeeded on a JPEG that holds segments of its
\* own.
C14_Witness ==
  /\ HasReturned("injectJpegExif")
  /\ callResult.fresh
  /\ Len(AllSegments(call.bytes)) >= 2
  /\ Len(AllSegments(callResult.bytes)) = Len(AllSegments(call.bytes)) + 1

\* C15: for a buffer of 4 bytes or more that starts with FF D8, when the
\* APP1 length exceeds 0xffff injectJpegExif returns the input and emits
\* nothing; otherwise the number in the 16-bit length field is the APP1
\* length itself and the output is longer than the input by 2 + that length.
C15_OversizeSegment ==
  (HasReturned("injectJpegExif") /\ Len(call.bytes) >= 4 /\ HasJpegSoi(call.bytes)) =>
    LET Holds(L) ==
          IF L > MaxSegmentLength
            THEN /\ callResult.bytes = call.bytes
                 /\ ~callResult.fresh
                 /\ ~callResult.threw
          ELSE /\ callResult.fresh
               /\ (callResult.bytes[5] * 256) + callResult.bytes[6] = L
               /\ Len(callResult.bytes) = Len(call.bytes) + 2 + L
    IN Holds(App1Length(call.prompt))

\* C15 witness: injectJpegExif returned the input for a prompt whose APP1
\* length is 0x10000.
C15_Witness ==
  /\ HasReturned("injectJpegExif")
  /\ HasJpegSoi(call.bytes)
  /\ Len(call.bytes) >= 4
  /\ App1Length(call.prompt) = MaxSegmentLength + 1
  /\ callResult.bytes = call.bytes

\* The chunks of the list up to and with the first IEND, where a PNG reader
\* stops.
UpToIend(list) ==
  IF \A i \in 1..Len(list) : list[i].type # <<73, 69, 78, 68>> THEN list
  ELSE SubSeq(list, 1, CHOOSE i \in 1..Len(list) :
                          /\ list[i].type = <<73, 69, 78, 68>>
                          /\ \A j \in 1..(i - 1) : list[j].type # <<73, 69, 78, 68>>)

\* The place of the first chunk of the type in the list, counted from 1,
\* and 0 when the list holds none.
FirstOfType(list, type) ==
  IF \A i \in 1..Len(list) : list[i].type # type THEN 0
  ELSE CHOOSE i \in 1..Len(list) :
         /\ list[i].type = type
         /\ \A j \in 1..(i - 1) : list[j].type # type

\* C16: in every output injectPngExif builds, the eXIf chunk stands where the
\* first IDAT chunk of the input without its eXIf chunks stood, or after the
\* last chunk when there is no IDAT; it is never the first chunk, and the
\* first chunk of the input without its eXIf chunks stays first.
C16_ExifNeverFirst ==
  (HasReturned("injectPngExif") /\ callResult.fresh) =>
    LET NotExif(chunk) == chunk.type # <<101, 88, 73, 102>>
        Holds(rest, out, idat, exif) ==
          /\ exif >= 2
          /\ out[1].type # <<101, 88, 73, 102>>
          /\ rest # <<>> =>
               /\ out[1].type = rest[1].type
               /\ out[1].data = rest[1].data
          /\ idat >= 2 => exif = idat
          /\ idat = 0 => exif = Len(rest) + 1
        Placed(rest, out) ==
          Holds(rest, out, FirstOfType(rest, <<73, 68, 65, 84>>),
                FirstOfType(out, <<101, 88, 73, 102>>))
    IN Placed(SelectSeq(UpToIend(AllChunks(call.bytes)), NotExif),
              AllChunks(callResult.bytes))

\* C16, for the inputs that hold a chunk other than eXIf (a type is eXIf
\* when its bytes without their top bit spell it, as toString('ascii') of
\* the code reads them): the placement of C16 holds.
C16_ExifNotFirstAfterOtherChunk ==
  (/\ HasReturned("injectPngExif")
   /\ callResult.fresh
   /\ \E i \in 1..Len(UpToIend(AllChunks(call.bytes))) :
        [k \in 1..4 |-> UpToIend(AllChunks(call.bytes))[i].type[k] % 128]
          # <<101, 88, 73, 102>>) =>
    LET NotExif(chunk) == [k \in 1..4 |-> chunk.type[k] % 128] # <<101, 88, 73, 102>>
        Holds(rest, out, idat, exif) ==
          /\ exif >= 2
          /\ out[1].type = rest[1].type
          /\ out[1].data = rest[1].data
          /\ idat >= 2 => exif = idat
          /\ idat = 1 => exif = 2
          /\ idat = 0 => exif = Len(rest) + 1
        Placed(rest, out) ==
          Holds(rest, out, FirstOfType(rest, <<73, 68, 65, 84>>),
                FirstOfType(out, <<101, 88, 73, 102>>))
    IN Placed(SelectSeq(UpToIend(AllChunks(call.bytes)), NotExif),
              AllChunks(callResult.bytes))

\* C17: injectPngExif returns the Buffer it was given, and raises nothing,
\* when the buffer has fewer than 8 bytes or its first 8 bytes are not
\* 89 50 4E 47 0D 0A 1A 0A; injectJpegExif does so when the buffer has fewer
\* than 4 bytes or does not start with FF D8.
C17_UnsupportedSignatureFallsBack ==
  LET ReturnsInput ==
        /\ callResult.bytes = call.bytes
        /\ ~callResult.fresh
        /\ ~callResult.threw
  IN /\ (HasReturned("injectPngExif") /\ ~HasPngSignature(call.bytes)) => ReturnsInput
     /\ (/\ HasReturned("injectJpegExif")
         /\ (Len(call.bytes) < 4 \/ ~HasJpegSoi(call.bytes))) => ReturnsInput

\* C17 witness: injectPngExif returned a buffer of 8 bytes or more whose
\* signature is wrong in one of its last four bytes only.
C17_Witness ==
  /\ HasReturned("injectPngExif")
  /\ Len(call.bytes) > 8
  /\ SubSeq(call.bytes, 1, 4) = <<137, 80, 78, 71>>
  /\ ~HasPngSignature(call.bytes)
  /\ callResult.bytes = call.bytes

\* C17 witness for injectJpegExif: a buffer that starts with FF D8 and has
\* three bytes came back.
C17_JpegWitness ==
  /\ HasReturned("injectJpegExif")
  /\ Len(call.bytes) = 3
  /\ HasJpegSoi(call.bytes)
  /\ callResult.bytes = call.bytes

\* C18: calculateCrc32 of a byte sequence is the reflected CRC-32 computed
\* bit by bit (polynomial 0xEDB88320, register 0xFFFFFFFF at the start,
\* complemented at the end); it is a value of 0..2^32-1, given here as two
\* halves of 0..65535; the CRC of no bytes is 0 and that of "123456789" is
\* 0xCBF43926; entry i of the table is i after eight bitwise reduction
\* steps, with entry 1 = 0x77073096 and entry 255 = 0x2D02EF8D.
C18_Crc32IsBitwiseCrc ==
  HasReturned("calculateCrc32") =>
    /\ callResult = Crc32Bitwise(call.bytes)
    /\ callResult \in (0..65535) \X (0..65535)
    /\ call.bytes = <<>> => callResult = <<0, 0>>
    /\ call.bytes = <<49, 50, 51, 52, 53, 54, 55, 56, 57>> => callResult = <<52212, 14630>>
    /\ DOMAIN CRC32_TABLE = 0..255
    /\ \A i \in 0..255 : CRC32_TABLE[i] = Crc32BitSteps(<<0, i>>, 8)
    /\ CRC32_TABLE[0] = <<0, 0>>
    /\ CRC32_TABLE[1] = <<30471, 12438>>
    /\ CRC32_TABLE[255] = <<11522, 61325>>

\* C18 witness: calculateCrc32 returned, for the type and data of the IHDR
\* chunk of the 1x1 PNG, the CRC that PNG stores for it, B51C0C02.
C18_Witness ==
  /\ HasReturned("calculateCrc32")
  /\ call.bytes = SubSeq(ONE_BY_ONE_PNG, 13, 29)
  /\ callResult = <<46364, 3074>>
  /\ SubSeq(ONE_BY_ONE_PNG, 30, 33) = <<181, 28, 12, 2>>

\* C19: across a call of attachPromptMetadata, and of the injector it calls,
\* the payload, the Buffer of the caller in it, is what it was; the Buffer
\* returned is either a newly allocated one or the input with its bytes as
\* they were; it is a newly allocated one whenever its bytes differ from the
\* input and whenever a well-formed PNG or JPEG is tagged.
C19_InputBufferNotWritten ==
  [][(pc = "mkdir" /\ pc' # "mkdir") =>
       /\ payload' = payload
       /\ ~fresh' => bytesWithMetadata' = payload.bytes
       /\ bytesWithMetadata' # payload.bytes => fresh'
       /\ (/\ ~IsBlank(payload.prompt)
           /\ \/ MimeKind(payload.mimeType) = "png" /\ IsValidPng(payload.bytes)
              \/ MimeKind(payload.mimeType) = "jpeg" /\ IsValidJpeg(payload.bytes))
            => fresh']_vars

\* C19 witness: attachPromptMetadata returned a newly allocated Buffer whose
\* bytes are those of the input, which already carried the same prompt.
C19_Witness ==
  /\ Attached
  /\ fresh
  /\ bytesWithMetadata = payload.bytes
  /\ called = "png"

\* C19 on the injectors called on their own, the oversize fallback of
\* injectJpegExif among the calls: the Buffer passed in keeps its bytes, and
\* the Buffer returned is a new one or the one passed in.
C19_DirectCallsKeepInput ==
  [][(call.fn \in {"injectPngExif", "injectJpegExif"} /\ call'.state = "returned") =>
       /\ call'.bytes = call.bytes
       /\ ~callResult'.fresh => callResult'.bytes = call.bytes
       /\ callResult'.bytes # call.bytes => callResult'.fresh]_vars

\* attachPromptMetadata of call i has returned.
HasAttached(i) == callResult[i] # <<>>

\* C20: with saveToTemp calls interleaving at their awaits in every order,
\* two calls of attachPromptMetadata with the same bytes, MIME type and prompt
\* have the same result, whatever ran between them; the result of a call
\* stays what it was while other calls run; and CRC32_TABLE changes in one
\* step only, the one that builds it, after which it is the table of
\* buildCrc32Table for good.
C20_InterleavedCallsIndependent ==
  /\ [](\A i, j \in CallIds :
          (/\ HasAttached(i) /\ HasAttached(j)
           /\ call[i].bytes = call[j].bytes
           /\ call[i].mimeType = call[j].mimeType
           /\ call[i].prompt = call[j].prompt) => callResult[i] = callResult[j])
  /\ [][/\ \A i \in CallIds : HasAttached(i) => callResult'[i] = callResult[i]
        /\ CRC32_TABLE' # CRC32_TABLE =>
             (CRC32_TABLE = <<>> /\ \A i \in CallIds : call[i].state = "idle")
        /\ CRC32_TABLE # <<>> => CRC32_TABLE' = buildCrc32Table]_vars

\* C20 witness: two calls with the same payload are both waiting for
\* writeFile, each holding a newly built PNG that carries the prompt, and the
\* two PNGs have the same bytes.
C20_Witness ==
  /\ call[1].state = "writing"
  /\ call[2].state = "writing"
  /\ call[1].bytes = call[2].bytes
  /\ call[1].mimeType = MimePng
  /\ call[2].mimeType = MimePng
  /\ call[1].prompt = call[2].prompt
  /\ callResult[1].fresh
  /\ callResult[1].bytes = callResult[2].bytes
  /\ CarriesDescription(callResult[2].bytes, call[2].prompt)

\* The call of generateImage has ended.
Ended == call.fn = "generateImage" /\ call.state \in {"returned", "rejected"}

\* The signal was aborted before the second attempt could start.
AbortedBeforeSecondAttempt ==
  call.signal = "aborted" /\ call.abortedAt.attempt <= 1

\* What C21 says of the attempts but for the end of two thrown attempts.
AttemptsAsClaimed ==
  /\ call.fetches <= MaxAttempts
  /\ call.fetches = 2 =>
       /\ \/ call.first.kind = "response" /\ call.first.status >= 500
          \/ call.first.kind = "threw"
       /\ ~AbortedBeforeSecondAttempt
  /\ (call.first.kind = "response" /\ call.first.status < 500) =>
       /\ call.fetches = 1
       /\ call.second = NoAttempt
       /\ call.response = call.first
  /\ call.second.kind = "response" =>
       /\ call.response = call.second
       /\ call.fetches = 2
       /\ Ended => callResult.kind \in {"image", "geminiNoImage", "geminiFailed"}
       /\ (Ended /\ call.second.status >= 500) =>
            callResult = Outcome("geminiFailed", call.second.status)

\* C21 as claimed: sendWithRetry makes at most two fetch attempts; the
\* second only after a first that returned a status of 500 or more or threw,
\* the caller not having aborted; a first response below 500 is returned
\* after one fetch; the second response is returned whatever its status, a
\* second 5xx ending in the API failure of that status; two thrown attempts
\* end in the network error.
C21_TwoThrownAttemptsEndInNetworkError ==
  call.fn = "generateImage" =>
    /\ AttemptsAsClaimed
    /\ (Ended /\ call.first.kind = "threw" /\ call.second.kind = "threw") =>
         callResult.kind = "geminiNetwork"

\* C21 as amended: the same, and two thrown attempts end in the network error
\* when the caller has not aborted, in the operation-cancelled error when
\* the caller aborted during the second attempt.
C21_TwoThrownAttemptsEndInNetworkErrorUnlessAborted ==
  call.fn = "generateImage" =>
    /\ AttemptsAsClaimed
    /\ (Ended /\ call.first.kind = "threw" /\ call.second.kind = "threw") =>
         callResult.kind = IF call.signal = "aborted" THEN "operationCancelled"
                           ELSE "geminiNetwork"

\* C21 witness: a 503 was retried once and the second 503 is the failure the
\* call reports.
C21_Witness ==
  /\ Ended
  /\ call.fetches = 2
  /\ call.first = Responded(503)
  /\ call.second = Responded(503)
  /\ callResult = Outcome("geminiFailed", 503)

\* The signal was aborted before generateImage was called.
AbortedBeforeCall == call.signal = "aborted" /\ call.abortedAt.state = "none"

\* The signal was aborted before the first attempt or while it was in flight.
AbortedByFirstAttempt ==
  /\ call.signal = "aborted"
  /\ \/ call.abortedAt.state \in {"none", "called", "awaitKey"}
     \/ call.abortedAt.state = "fetching" /\ call.abortedAt.attempt = 1

\* What C22 says of the fetches: none is started with the signal aborted,
\* none at all when it was aborted before the call, no second one when it
\* was aborted before or during the first attempt.
NoFetchOnceAborted ==
  /\ [](call.fn = "generateImage" =>
          /\ AbortedBeforeCall => call.fetches = 0
          /\ AbortedByFirstAttempt => (call.fetches <= 1 /\ call.second = NoAttempt))
  /\ [][call.fn = "generateImage" =>
          (call'.fetches > call.fetches => call.signal # "aborted")]_vars

Folded(text) == toLowerCase(trim(text))

\* The rank of a model for a preference: 1 when its id is the preference,
\* 2 when its name is, 3 when its family or version is, 4 when one of the
\* four contains it, 5 otherwise.
RankOf(model, wanted) ==
  IF Folded(model.id) = wanted THEN 1
  ELSE IF Folded(model.name) = wanted THEN 2
  ELSE IF Folded(model.family) = wanted \/ Folded(model.version) = wanted THEN 3
  ELSE IF \/ Contains(Folded(model.id), wanted)
          \/ Contains(Folded(model.family), wanted)
          \/ Contains(Folded(model.version), wanted)
          \/ Contains(Folded(model.name), wanted) THEN 4
  ELSE 5

\* C23: selectPreferredModel raises on an empty list; on a list with models
\* it returns a member of the list: the first model when the preference is
\* empty or no model has rank 1 to 4 for it, otherwise the first model of
\* the best rank present, where id match ranks before name match, before
\* family or version match, before containment in any of the four.
C23_SelectsByStrictPriority ==
  HasReturned("selectPreferredModel") =>
    LET Holds(models, wanted, r) ==
          IF Len(models) = 0 THEN r.threw
          ELSE /\ ~r.threw
               /\ r.index \in 1..Len(models)
               /\ r.model = models[r.index]
               /\ IF wanted = <<>> THEN r.index = 1
                  ELSE LET best == CHOOSE k \in 1..5 :
                                     /\ \E i \in 1..Len(models) : RankOf(models[i], wanted) = k
                                     /\ \A i \in 1..Len(models) : RankOf(models[i], wanted) >= k
                       IN IF best = 5 THEN r.index = 1
                          ELSE /\ RankOf(r.model, wanted) = best
                               /\ \A j \in 1..(r.index - 1) :
                                    RankOf(models[j], wanted) > best
    IN Holds(call.models, Folded(call.preferred), callResult)

\* C23 witness: the list starts with a model that only contains the
\* preference and one whose name is the preference, and the third model,
\* whose id is the preference, is returned.
C23_Witness ==
  /\ HasReturned("selectPreferredModel")
  /\ Len(call.models) = 3
  /\ RankOf(call.models[1], Folded(call.preferred)) = 4
  /\ RankOf(call.models[2], Folded(call.preferred)) = 2
  /\ callResult.index = 3
  /\ Folded(callResult.model.id) = Folded(call.preferred)
  /\ callResult.model.id # call.preferred

\* C24: every output injectPngExif builds from an input whose first chunk is
\* IHDR and whose last chunk is IEND, with or without IDAT and eXIf chunks
\* between them, has the IHDR chunk of the input as its first chunk and
\* IEND as its last.
C24_HeaderFirstEndMarkerLast ==
  (HasReturned("injectPngExif") /\ callResult.fresh) =>
    LET Ordered(in, out) ==
          (/\ IsChunked(call.bytes)
           /\ Len(in) >= 2
           /\ in[1].type = <<73, 72, 68, 82>>
           /\ in[Len(in)].type = <<73, 69, 78, 68>>
           /\ TypeCount(in, <<73, 69, 78, 68>>) = 1) =>
            /\ Len(out) >= 2
            /\ out[1].type = in[1].type
            /\ out[1].data = in[1].data
            /\ out[Len(out)].type = <<73, 69, 78, 68>>
    IN Ordered(AllChunks(call.bytes), AllChunks(callResult.bytes))

\* C24 for the inputs that hold an IDAT chunk between IHDR and IEND: the
\* order of C24 holds.
C24_HeaderFirstEndMarkerLastWithIdat ==
  (HasReturned("injectPngExif") /\ callResult.fresh /\ IsValidPng(call.bytes)) =>
    LET Ordered(in, out) ==
          /\ out[1].type = in[1].type
          /\ out[1].data = in[1].data
          /\ out[Len(out)].type = <<73, 69, 78, 68>>
    IN Ordered(AllChunks(call.bytes), AllChunks(callResult.bytes))

\* C25: injectPngExif returns a newly built buffer only when the chunks of
\* the input, read one after the other from offset 8, reach an IEND chunk;
\* when the buffer ends, or holds 1 to 11 more bytes, before an IEND chunk
\* has been read, the input is returned.
C25_NoPartiallyParsedOutput ==
  (HasReturned("injectPngExif") /\ HasPngSignature(call.bytes)) =>
    LET Holds(scanned) ==
          LET reachedIend == /\ scanned # <<>>
                             /\ scanned[Len(scanned)].type = <<73, 69, 78, 68>>
          IN /\ callResult.fresh => reachedIend
             /\ ~reachedIend => (callResult.bytes = call.bytes /\ ~callResult.fresh)
    IN Holds(UpToIend(AllChunks(call.bytes)))

\* The bytes from offset o on with the CRC field of every whole chunk
\* replaced by the given four bytes.
RECURSIVE WithCrcsFrom(_, _, _)
WithCrcsFrom(b, o, crc) ==
  IF ~WholeChunkAt(b, o) THEN SubSeq(b, o + 1, Len(b))
  ELSE SubSeq(b, o + 1, o + 8 + DeclaredLength(b, o)) \o crc
         \o WithCrcsFrom(b, o + 12 + DeclaredLength(b, o), crc)

\* The buffer with every stored CRC replaced.
WithCrcs(b, crc) ==
  IF HasPngSignature(b) THEN SubSeq(b, 1, 8) \o WithCrcsFrom(b, 8, crc) ELSE b

\* The types, as toString('ascii') reads them, and the data of the chunks
\* of the list that are not eXIf chunks.
TypesAndDataWithoutExif(list) ==
  LET Read(chunk) == [type |-> [k \in 1..4 |-> chunk.type[k] % 128], data |-> chunk.data]
      NotExif(chunk) == chunk.type # <<101, 88, 73, 102>>
  IN SelectSeq([i \in 1..Len(list) |-> Read(list[i])], NotExif)

\* C26: the CRCs stored in the input have no part in the result of
\* injectPngExif: the input with every stored CRC replaced, by zeros or by
\* ones, gives the same bytes; an input of well-placed chunks is processed
\* whatever its CRCs; every chunk of a built output stores the CRC-32 of its
\* type and data; and the chunks of the output other than eXIf are those of
\* the input up to its first IEND, so that nothing after it is in the output.
C26_StoredCrcsHaveNoInfluence ==
  HasReturned("injectPngExif") =>
    LET SameAs(other) ==
          /\ other.fresh = callResult.fresh
          /\ other.threw = callResult.threw
          /\ callResult.fresh => other.bytes = callResult.bytes
        Rebuilt(out) ==
          /\ IsChunked(callResult.bytes)
          /\ \A i \in 1..Len(out) :
               out[i].crc = U32PairBytes(Crc32Bitwise(out[i].type \o out[i].data))
          /\ TypesAndDataWithoutExif(out)
               = TypesAndDataWithoutExif(UpToIend(AllChunks(call.bytes)))
    IN /\ SameAs(injectPngExif(WithCrcs(call.bytes, <<0, 0, 0, 0>>), call.prompt))
       /\ SameAs(injectPngExif(WithCrcs(call.bytes, <<255, 255, 255, 255>>), call.prompt))
       /\ IsValidPng(call.bytes) => callResult.fresh
       /\ callResult.fresh => Rebuilt(AllChunks(callResult.bytes))

\* C26 witness: the 1x1 PNG of the tests, whose IDAT chunk stores a CRC
\* that is not the CRC of its type and data, was processed, and the IDAT
\* chunk of the output stores the right one.
C26_Witness ==
  /\ HasReturned("injectPngExif")
  /\ call.bytes = ONE_BY_ONE_PNG
  /\ AllChunks(call.bytes)[2].crc = <<143, 101, 246, 117>>
  /\ callResult.fresh
  /\ AllChunks(callResult.bytes)[3].type = <<73, 68, 65, 84>>
  /\ AllChunks(callResult.bytes)[3].data = AllChunks(call.bytes)[2].data
  /\ AllChunks(callResult.bytes)[3].crc = <<21, 195, 22, 237>>

\* The prompts embedded first: "abc", "new", U+00E9, "x" and an unpaired
\* surrogate.
EarlierPrompts == {<<97, 98, 99>>, <<110, 101, 119>>, <<233>>, <<120, 55357>>}

\* C27: for a non-empty prompt p2, injectPngExif(x, p2) has the bytes of
\* injectPngExif(injectPngExif(x, p1), p2) for every non-empty p1, p2 itself
\* among them, and a second application to its own result with p2 changes
\* no byte; also for inputs without IDAT and inputs returned as they came.
C27_PngLastWriterWins ==
  (HasReturned("injectPngExif") /\ call.prompt # <<>>) =>
    /\ \A p1 \in EarlierPrompts \cup {call.prompt} :
         LET After(first) ==
               /\ ~first.threw
               /\ injectPngExif(first.bytes, call.prompt).bytes = callResult.bytes
         IN After(injectPngExif(call.bytes, p1))
    /\ injectPngExif(callResult.bytes, call.prompt).bytes = callResult.bytes

\* C27 witness: the input has no IDAT chunk and holds an eXIf chunk of an
\* earlier writer; the output was built, holds one eXIf chunk, and that
\* chunk carries the prompt.
C27_Witness ==
  /\ HasReturned("injectPngExif")
  /\ call.prompt # <<>>
  /\ callResult.fresh
  /\ TypeCount(AllChunks(call.bytes), <<73, 68, 65, 84>>) = 0
  /\ TypeCount(AllChunks(call.bytes), <<101, 88, 73, 102>>) >= 1
  /\ TypeCount(AllChunks(call.bytes), <<73, 72, 68, 82>>) = 1
  /\ TypeCount(AllChunks(callResult.bytes), <<101, 88, 73, 102>>) = 1
  /\ CarriesDescription(callResult.bytes, BufferFromUtf8(call.prompt))

\* C28: where injectJpegExif builds an output, the output is longer than
\* the input by 4 + 6 + the length of the TIFF blob, and the output without
\* its bytes from offset 2 up to, not with, offset 2 + 2 + L, L being the
\* number in the length field at offset 4, is the input.
C28_JpegInjectionReversible ==
  (HasReturned("injectJpegExif") /\ callResult.fresh) =>
    LET Reverses(in, out, L, tiffLength) ==
          /\ Len(out) = Len(in) + 4 + 6 + tiffLength
          /\ L = 6 + tiffLength + 2
          /\ SubSeq(out, 1, 2) \o SubSeq(out, 2 + 2 + L + 1, Len(out)) = in
          /\ SubSeq(out, 3, 4) = <<255, 225>>
        Read(out) ==
          Reverses(call.bytes, out, (out[5] * 256) + out[6],
                   Len(ExpectedTiff(BufferFromUtf8(call.prompt))))
    IN Read(callResult.bytes)

\* C28 witness: injectJpegExif built an output from a JPEG that already
\* held an APP1 Exif segment, and that segment is in the output after the
\* new one.
C28_Witness ==
  /\ HasReturned("injectJpegExif")
  /\ callResult.fresh
  /\ ExifSegmentCount(AllSegments(call.bytes)) = 1
  /\ ExifSegmentCount(AllSegments(callResult.bytes)) = 2
  /\ Len(callResult.bytes) > Len(call.bytes) + 10

\* C29: whenever attachPromptMetadata calls injectJpegExif, the prompt it
\* passes has at most 2000 code units and at most 6000 bytes in UTF-8, so
\* that 6 + 26 + bytes + 1 + 2 is at most 6035, below 0xFFFF; every input
\* of 4 bytes or more that starts with FF D8 comes back with the new
\* segment, whose length field holds at most that number.
C29_OversizeUnreachable ==
  (pc = "writing" /\ called = "jpeg") =>
    LET Bounded(utf8Length) ==
          /\ Len(encoded) <= MaxPromptLength
          /\ utf8Length <= 3 * MaxPromptLength
          /\ 6 + 26 + utf8Length + 1 + 2 <= 6035
          /\ 6 + 26 + utf8Length + 1 + 2 < MaxSegmentLength
          /\ (Len(payload.bytes) >= 4 /\ HasJpegSoi(payload.bytes)) =>
               /\ fresh
               /\ bytesWithMetadata # payload.bytes
               /\ (bytesWithMetadata[5] * 256) + bytesWithMetadata[6]
                    <= 6 + 26 + utf8Length + 1 + 2
               /\ Len(bytesWithMetadata)
                    = Len(payload.bytes) + 2
                        + (bytesWithMetadata[5] * 256) + bytesWithMetadata[6]
               /\ utf8Length >= 4 =>
                    (bytesWithMetadata[5] * 256) + bytesWithMetadata[6]
                      = 6 + 26 + utf8Length + 1 + 2
    IN Bounded(Len(BufferFromUtf8(encoded)))

\* C29 witness: a prompt of more than 2000 units of three bytes each was
\* embedded in a JPEG with the length 6035 in the length field.
C29_Witness ==
  /\ pc = "writing"
  /\ called = "jpeg"
  /\ fresh
  /\ Len(payload.prompt) > MaxPromptLength
  /\ Len(BufferFromUtf8(encoded)) = 3 * MaxPromptLength
  /\ (bytesWithMetadata[5] * 256) + bytesWithMetadata[6] = 6035

\* The text has no white space at its start and no two units of white
\* space next to each other.
IsCollapsed(text) ==
  /\ text # <<>> => ~IsWhiteSpace(text[1])
  /\ \A i \in 1..(Len(text) - 1) : ~(IsWhiteSpace(text[i]) /\ IsWhiteSpace(text[i + 1]))

\* C30 as claimed: the normalized prompt is a fixed point of normalizePrompt;
\* it neither starts nor ends with white space and holds no two units of
\* white space next to each other, also when the cut at 2000 units falls
\* right after a space.
C30_NormalizedPromptInNormalForm ==
  (pc = "writing" /\ called # "none") =>
    /\ normalizePrompt(encoded) = encoded
    /\ IsCollapsed(encoded)
    /\ ~IsWhiteSpace(encoded[Len(encoded)])

\* C30 as amended: the normalized prompt does not start with white space
\* and holds no two units of white space next to each other; it ends with
\* white space only when it is the first 2000 units of a longer compact text
\* whose unit 2000 is a space, and then normalizePrompt takes that space
\* away; in every other case it is a fixed point of normalizePrompt.
C30_NormalFormButForCutAfterSpace ==
  (pc = "writing" /\ called # "none") =>
    LET Holds(last) ==
          /\ IsCollapsed(encoded)
          /\ \A i \in 1..Len(encoded) : IsWhiteSpace(encoded[i]) => encoded[i] = 32
          /\ IF IsWhiteSpace(last)
               THEN /\ Len(encoded) = MaxPromptLength
                    /\ Len(CollapsedPromptOf(payload.prompt)) > MaxPromptLength
                    /\ CollapsedPromptOf(payload.prompt)[MaxPromptLength] = 32
                    /\ normalizePrompt(encoded) = SubSeq(encoded, 1, Len(encoded) - 1)
             ELSE normalizePrompt(encoded) = encoded
    IN Holds(encoded[Len(encoded)])

\* C30 witness: the prompt handed to the codec has 2000 units, ends with a
\* space, and normalizePrompt makes it one unit shorter.
C30_Witness ==
  /\ pc = "writing"
  /\ called # "none"
  /\ Len(encoded) = MaxPromptLength
  /\ encoded[MaxPromptLength] = 32
  /\ Len(normalizePrompt(encoded)) = MaxPromptLength - 1

====
